---- MODULE Spec2Model ----
(***************************************************************************)
(* State-machine model of the dux threaded directory scanner               *)
(* (src/dux/scan/_base.py), its work queue and the tree finalisation       *)
(* (src/dux/services/tree.py).                                             *)
(***************************************************************************)
EXTENDS Integers, Sequences, FiniteSets, TLC

\* ------------------------------------------------------------------ bounds
\* Largest number of worker threads a scanner is constructed with.
MaxWorkers == 2
\* Largest value of options.max_depth that is tried (None is tried as well).
MaxDepthOpt == 2
\* Largest number of PatternRule values in a configuration.
MaxRules == 2
\* Largest config.max_insights_per_category that is tried.
MaxInsights == 3
\* Largest disk usage of a file in the trees insights are generated for.
MaxUsage == 2
\* Largest number of add_word calls on an automaton, longest key, longest text.
MaxWords == 3
MaxKeyLen == 2
MaxTextLen == 3
\* Longest pattern that is brace-expanded.
MaxPatLen == 7
\* Longest literal of a **/literal/** or **/*literal pattern, and longest path
\* such a pattern is matched against.
MaxLitLen == 2
MaxPathLen == 5

\* ----------------------------------------------------- the scanned filesystem
\* Number of files of the flat layout (the cancellation scenario's directory).
FlatFiles == 50

\* run_worker: progress is emitted when local_files + local_dirs goes past a
\* multiple of 100.
ProgressEvery == 100

\* Number of files of the first and of the last directory of the wide layout.
WideFiles == 60

\* The two subdirectories of the wide layout.
WideDir1 == WideFiles + 1
WideDir2 == WideFiles + ProgressEvery + 2

Layouts == {"nested", "flat", "wide"}

\* The root ScanNode; nodes are named by the filesystem entry they stand for.
root_node == 0

\* nested:  0/ { 1 (file), 2/ { 5 (file), 6/ { 8 (file) } }, 3 (stat fails), 4/ { 7 (file) } }
\* flat:    0/ { 1 .. FlatFiles (files) }
\* wide:    0/ { WideFiles files, WideDir1/ { ProgressEvery files,
\*                                           WideDir2/ { WideFiles files } } }
NodeIds(layout) ==
    IF layout = "nested" THEN 0 .. 8
    ELSE IF layout = "flat" THEN 0 .. FlatFiles
    ELSE 0 .. WideDir2 + WideFiles

Range1(a, b) == [i \in 1 .. (b - a + 1) |-> a + i - 1]

\* FileSystem.scandir(path): the entries of directory d, in the order the port returns them.
scandir(layout, d) ==
    IF layout = "nested"
    THEN CASE d = 0 -> << 1, 2, 3, 4 >>
           [] d = 2 -> << 5, 6 >>
           [] d = 4 -> << 7 >>
           [] d = 6 -> << 8 >>
           [] OTHER -> << >>
    ELSE IF layout = "flat"
    THEN IF d = 0 THEN Range1(1, FlatFiles) ELSE << >>
    ELSE CASE d = 0 -> Range1(1, WideDir1)
           [] d = WideDir1 -> Range1(WideDir1 + 1, WideDir2)
           [] d = WideDir2 -> Range1(WideDir2 + 1, WideDir2 + WideFiles)
           [] OTHER -> << >>

\* Entry.stat: "dir" / "file" for StatInfo.is_dir, "bad" when the per-entry stat is None.
EntryStat(layout, e) ==
    IF layout = "nested"
    THEN CASE e \in {0, 2, 4, 6} -> "dir"
           [] e = 3 -> "bad"
           [] OTHER -> "file"
    ELSE IF layout = "flat"
    THEN IF e = 0 THEN "dir" ELSE "file"
    ELSE IF e \in {0, WideDir1, WideDir2} THEN "dir" ELSE "file"

\* StatInfo.size of an entry.
StatSize(layout, e) ==
    IF layout = "nested"
    THEN CASE e = 1 -> 2
           [] e = 5 -> 3
           [] e = 7 -> 1
           [] e = 8 -> 4
           [] OTHER -> 6
    ELSE 1

\* StatInfo.disk_usage of an entry.
StatDiskUsage(layout, e) ==
    IF layout = "nested"
    THEN CASE e = 1 -> 1
           [] e = 5 -> 2
           [] e = 7 -> 3
           [] e = 8 -> 4
           [] OTHER -> 8
    ELSE 1

\* ScanNode.is_dir
is_dir(layout, n) == EntryStat(layout, n) = "dir"

\* ------------------------------------------------------------- tree primitives
RECURSIVE SumOver(_, _)
SumOver(s, f) ==
    IF s = << >> THEN 0
    ELSE IF Len(s) = 1 THEN f[s[1]]
    ELSE SumOver(SubSeq(s, 1, Len(s) \div 2), f)
         + SumOver(SubSeq(s, Len(s) \div 2 + 1, Len(s)), f)

Reverse(s) == [i \in 1 .. Len(s) |-> s[Len(s) + 1 - i]]

\* F(v) with v evaluated once: when it evaluates ENABLED, TLC evaluates an
\* operator's argument anew at each of its uses, which is exponential along
\* a recursion.
Once(F(_), v) == CHOOSE r \in {F(x) : x \in {v}} : TRUE

\* list.sort(key=disk_usage, reverse=True): stable, largest first.  The
\* element at position i of s comes after the elements with a larger key and
\* after the elements with the same key that precede it in s.
SortRank(s, du) ==
    [i \in 1 .. Len(s) |->
        1 + Cardinality({j \in 1 .. Len(s) :
                            \/ du[s[j]] > du[s[i]]
                            \/ du[s[j]] = du[s[i]] /\ j < i})]

SortByDiskUsage(s, du) ==
    Once(LAMBDA rank : [k \in 1 .. Len(s) |-> s[CHOOSE i \in 1 .. Len(s) : rank[i] = k]],
         SortRank(s, du) @@ << >>)

\* finalize_sizes, first loop: the directories in the order the visit stack
\* pops them.  The nodes popped before the next directory are files, which the
\* loop skips; they are dropped in one step.
RECURSIVE CollectDirs(_, _, _, _)
CollectDirs(layout, visit, stack, ch) ==
    LET dirs == {i \in 1 .. Len(visit) : is_dir(layout, visit[i])}
    IN  IF dirs = {} THEN stack
        ELSE LET top == CHOOSE i \in dirs : \A j \in dirs : j <= i
                 node == visit[top]
                 rest == SubSeq(visit, 1, top - 1)
             IN  Once(LAMBDA vs : CollectDirs(layout, vs[1], vs[2], ch),
                      << rest \o ch[node], Append(stack, node) >>)

FinalizeOrderForward(stack) == stack

\* finalize_sizes, `for node in reversed(stack)`.
FinalizeOrder(stack) == Reverse(stack)

\* finalize_sizes, one turn of the second loop, on a tree
\* T = [children, size_bytes, disk_usage].
AggregateNode(node, T) ==
    Once(LAMBDA T1 :
             Once(LAMBDA sorted : [T1 EXCEPT !.children[node] = sorted],
                  SortByDiskUsage(T1.children[node], T1.disk_usage)),
         [T EXCEPT !.size_bytes[node] = SumOver(T.children[node], T.size_bytes),
                   !.disk_usage[node] = SumOver(T.children[node], T.disk_usage)])

\* finalize_sizes, second loop.
RECURSIVE Aggregate(_, _)
Aggregate(order, T) ==
    IF order = << >> THEN T
    ELSE Once(LAMBDA T2 : Aggregate(Tail(order), T2), AggregateNode(Head(order), T))

finalize_sizes(layout, root, T) ==
    Once(LAMBDA order : Aggregate(order, T),
         FinalizeOrder(CollectDirs(layout, << root >>, << >>, T.children)))

\* ------------------------------------------------------------------- state
Workers == 1 .. MaxWorkers

VARIABLES
    layout,          \* the filesystem under the scanned path
    rootExists,      \* fs.exists(expanded)
    rootStatRaises,  \* fs.stat(resolved) raises OSError
    rootIsDir,       \* root_stat.is_dir
    max_depth,       \* options.max_depth: << >> is None, << m >> is m
    hasCancel,       \* cancel_check is not None
    hasProgress,     \* progress_callback is not None
    cbRaises,        \* the callbacks the caller gave may raise an exception
    numWorkers,      \* self._workers
    pcMain,          \* position of the thread that called scan
    result,          \* what scan returned ("none" while it runs)
    deque,           \* _WorkQueue._deque
    outstanding,     \* _WorkQueue._outstanding
    done,            \* _WorkQueue._done (Event)
    shutdown,        \* _WorkQueue._shutdown
    cancelled,       \* the cancelled Event of scan
    stats,           \* the shared ScanStats
    pc,              \* position of each worker thread in run_worker
    task,            \* the task a worker holds: << >> or << [node, depth] >>
    local,           \* local_files / local_dirs / local_errors of each worker
    children,        \* ScanNode.children of every node
    size_bytes,      \* ScanNode.size_bytes of every node
    disk_usage,      \* ScanNode.disk_usage of every node
    answers,         \* what cancel_check answered, one element per invocation
    enq,             \* history: how often each node was put in the queue
    scanned,         \* history: how often _scan_dir was called for each node
    raised,          \* history: the nodes whose _scan_dir raised
    progress_calls,  \* history: the arguments of every progress_callback call
    observed,        \* history: the workers for which _is_cancelled returned True
    patterns,        \* config.patterns
    additional_paths,\* config.additional_paths
    max_insights,    \* config.max_insights_per_category
    ipc,             \* position of the caller of generate_insights / match_all
    matchres,        \* the last call of match_all: << >> or << [path, is_dir, hits] >>
    istack,          \* generate_insights: the traversal stack
    heaps,           \* generate_insights: the heap of every category
    hseen,           \* generate_insights: the seen dict of every category
    by_category,     \* generate_insights: the CategoryStats of every category
    insights,        \* InsightBundle.insights
    visited,         \* history: the nodes match_all was called for
    recorded,        \* history: every insight handed to _record
    filtered,        \* the last call of filter_insights: << >> or << [categories, result] >>
    automaton,       \* an AhoCorasick object: its trie nodes and whether it was built
    ac_words,        \* history: the (key, value) pairs add_word accepted, in order
    fcall            \* the last call under test: << >> or << [op, arg, result, error] >>

scanVars == << layout, rootExists, rootStatRaises, rootIsDir, max_depth, hasCancel,
               hasProgress, cbRaises, numWorkers, pcMain, result, deque, outstanding,
               done, shutdown, cancelled, stats, pc, task, local, children,
               size_bytes, disk_usage, answers, enq, scanned, raised, progress_calls,
               observed >>

configVars == << patterns, additional_paths, max_insights >>

insightVars == << configVars, ipc, matchres, istack, heaps, hseen, by_category,
                  insights, visited, recorded, filtered >>

acVars == << automaton, ac_words, fcall >>

vars == << scanVars, insightVars, acVars >>

inputVars == << layout, rootExists, rootStatRaises, rootIsDir, max_depth,
                hasCancel, hasProgress, cbRaises, numWorkers >>
queueVars == << deque, outstanding, done, shutdown >>
treeVars == << children, size_bytes, disk_usage >>
histVars == << enq, scanned, raised, progress_calls, observed >>

ZeroCounts == [files |-> 0, dirs |-> 0, errors |-> 0]

Max(a, b) == IF a >= b THEN a ELSE b
Min(a, b) == IF a <= b THEN a ELSE b

\* ThreadedScannerBase.__init__: self._workers = max(1, workers)
init_workers(workers) == Max(1, workers)

\* The characters of the keys and texts an automaton is given.
AcAlphabet == {"a", "b"}

\* A trie node of the automaton: the child of every character (-1: none), the
\* value of the key that ends here (0: none), the failure link and the
\* dict-suffix link (0: the root, which is never reported).
EmptyNode ==
    [next |-> [c \in AcAlphabet |-> -1], output |-> 0, fail |-> 0, dict_suffix |-> 0]

\* AhoCorasick(): node 0, the root, is nodes[1]; the automaton is not built.
NewAC == [nodes |-> << EmptyNode >>, built |-> FALSE]

\* No automaton call was made.
ACIdle ==
    /\ automaton = NewAC
    /\ ac_words = << >>
    /\ fcall = << >>

\* generate_insights has not been called.
InsightsIdle ==
    /\ patterns = << >>
    /\ additional_paths = << >>
    /\ max_insights = 1
    /\ ipc = "idle"
    /\ matchres = << >>
    /\ istack = << >>
    /\ heaps = << >>
    /\ hseen = << >>
    /\ by_category = << >>
    /\ insights = << >>
    /\ visited = {}
    /\ recorded = {}
    /\ filtered = << >>

\* The state when scan is called on a filesystem of one of `layouts`, with a
\* progress_callback or not as `progress` says, and with callbacks that raise
\* or not as `raising` says.
InitWith(layouts, progress, raising) ==
    /\ InsightsIdle
    /\ ACIdle
    /\ layout \in layouts
    /\ hasProgress \in progress
    /\ cbRaises \in raising
    /\ progress_calls = << >>
    /\ observed = {}
    /\ rootExists \in BOOLEAN
    /\ rootStatRaises \in BOOLEAN
    /\ rootIsDir \in BOOLEAN
    /\ max_depth \in {<< >>} \cup {<< m >> : m \in 0 .. MaxDepthOpt}
    /\ hasCancel \in BOOLEAN
    /\ numWorkers \in {init_workers(n) : n \in 0 .. MaxWorkers}
    /\ pcMain = "resolve_root"
    /\ result = "none"
    /\ deque = << >>
    /\ outstanding = 0
    /\ done = FALSE
    /\ shutdown = FALSE
    /\ cancelled = FALSE
    /\ stats = [files |-> 0, directories |-> 0, access_errors |-> 0]
    /\ pc = [w \in Workers |-> "unstarted"]
    /\ task = [w \in Workers |-> << >>]
    /\ local = [w \in Workers |-> ZeroCounts]
    /\ children = [n \in NodeIds(layout) |-> << >>]
    /\ size_bytes = [n \in NodeIds(layout) |-> 0]
    /\ disk_usage = [n \in NodeIds(layout) |-> 0]
    /\ answers = << >>
    /\ enq = [n \in NodeIds(layout) |-> 0]
    /\ scanned = [n \in NodeIds(layout) |-> 0]
    /\ raised = {}

\* scan is called without a progress_callback and with a cancel_check, when
\* there is one, that returns normally.
InitOn(layouts) == InitWith(layouts, {FALSE}, {FALSE})

\* A directory tree with nested and sibling directories and an unreadable entry.
Init == InitOn({"nested"})

\* One directory holding FlatFiles files and no subdirectory, scanned with or
\* without a progress_callback.
InitFlat == InitWith({"flat"}, BOOLEAN, {FALSE})

\* The nested tree, scanned with a progress_callback and a cancel_check that
\* may raise.
InitRaise == InitWith({"nested"}, {TRUE}, {TRUE})

\* Three directories in a chain, the middle one of more than ProgressEvery
\* entries, scanned to any depth by one worker with a progress_callback; the
\* callbacks may raise.
InitWide ==
    /\ InitWith({"wide"}, {TRUE}, BOOLEAN)
    /\ max_depth = << >>
    /\ numWorkers = 1

\* ------------------------------------------------------------ root validation
ResolveRootStatFirst(exists, statRaises, isDir) ==
    IF statRaises THEN "root_stat_failed"
    ELSE IF ~exists THEN "not_found"
    ELSE IF ~isDir THEN "not_directory"
    ELSE "resolved"

\* resolve_root: a ScanErrorCode, or "resolved" for the resolved path.
resolve_root(exists, statRaises, isDir) ==
    IF ~exists THEN "not_found"
    ELSE IF statRaises THEN "root_stat_failed"
    ELSE IF ~isDir THEN "not_directory"
    ELSE "resolved"

\* ---------------------------------------------------------------- work queue
\* The workers blocked in self._not_empty.wait().
Waiting == {w \in Workers : pc[w] = "waiting"}

\* Condition.notify(n): the sets of waiters it may wake (at most n of them).
notify(n) == {S \in SUBSET Waiting : Cardinality(S) = Min(n, Cardinality(Waiting))}

NotifyNobody(waiting) == {}

\* Condition.notify_all(): the waiters it wakes.
notify_all(waiting) == waiting

\* pc after worker w (0: the main thread) moved to `next` and the workers of S were woken.
Woken(w, next, S) ==
    [v \in Workers |-> IF v = w THEN next ELSE IF v \in S THEN "get" ELSE pc[v]]

GetKeepsTask(dq) == dq

\* _WorkQueue.get: the deque after popleft().
popleft(dq) == Tail(dq)

JoinReturnsAtOnce(isSet) == TRUE

\* _WorkQueue.join: self._done.wait() returns once the event is set.
done_wait(isSet) == isSet

TaskDoneSetsEvent(n, isSet) == [outstanding |-> n - 1, done |-> TRUE]

\* _WorkQueue.task_done: the counter and the event after it.
task_done(n, isSet) ==
    [outstanding |-> n - 1, done |-> IF n - 1 = 0 THEN TRUE ELSE isSet]

GetWaitsOnShutdown(dq, isShutdown) == IF dq # << >> THEN "task" ELSE "wait"

\* _WorkQueue.get, lines 97-102: what one pass of the loop does: a task is
\* popped, or None is returned, or the thread waits on _not_empty.
get_outcome(dq, isShutdown) ==
    IF dq # << >> THEN "task"
    ELSE IF isShutdown THEN "sentinel"
    ELSE "wait"

\* ------------------------------------------------------------ the main thread
\* scan, lines 176-178: root validation; an error is returned at once.
MainResolveRoot ==
    /\ pcMain = "resolve_root"
    /\ LET r == resolve_root(rootExists, rootStatRaises, rootIsDir)
       IN  IF r = "resolved"
           THEN /\ pcMain' = "put_root"
                /\ UNCHANGED result
           ELSE /\ pcMain' = "done"
                /\ result' = r
    /\ UNCHANGED << insightVars, acVars, inputVars, queueVars, cancelled, stats, pc, task, local,
                    treeVars, answers, histVars >>

\* scan, lines 181-189: the root node, q.put(_Task(root_node, 0)), the stats.
MainPutRoot ==
    /\ pcMain = "put_root"
    /\ deque' = Append(deque, [node |-> root_node, depth |-> 0])
    /\ outstanding' = outstanding + 1
    /\ \E S \in notify(1) : pc' = Woken(0, "none", S)
    /\ enq' = [enq EXCEPT ![root_node] = @ + 1]
    /\ stats' = [files |-> 0, directories |-> 1, access_errors |-> 0]
    /\ cancelled' = FALSE
    /\ pcMain' = "start_threads"
    /\ UNCHANGED << insightVars, acVars, inputVars, result, done, shutdown, task, local, treeVars,
                    answers, scanned, raised, progress_calls, observed >>

\* scan, lines 266-269: the worker threads are started.
MainStartThreads ==
    /\ pcMain = "start_threads"
    /\ pc' = [w \in Workers |-> IF w <= numWorkers THEN "get" ELSE pc[w]]
    /\ pcMain' = "join"
    /\ UNCHANGED << insightVars, acVars, inputVars, result, queueVars, cancelled, stats, task, local,
                    treeVars, answers, histVars >>

\* scan, line 273: q.join().
MainJoin ==
    /\ pcMain = "join"
    /\ done_wait(done)
    /\ pcMain' = "shutdown"
    /\ UNCHANGED << insightVars, acVars, inputVars, result, queueVars, cancelled, stats, pc, task,
                    local, treeVars, answers, histVars >>

\* scan, line 274: q.shutdown().
MainShutdown ==
    /\ pcMain = "shutdown"
    /\ shutdown' = TRUE
    /\ pc' = Woken(0, "none", notify_all(Waiting))
    /\ pcMain' = "thread_join"
    /\ UNCHANGED << insightVars, acVars, inputVars, result, deque, outstanding, done, cancelled, stats,
                    task, local, treeVars, answers, histVars >>

\* scan, lines 275-278: thread.join(timeout=0.3) for each thread; a join returns
\* when its thread has exited or when the timeout expires, whichever is first.
MainThreadJoin ==
    /\ pcMain = "thread_join"
    /\ pcMain' = "return"
    /\ UNCHANGED << insightVars, acVars, inputVars, result, queueVars, cancelled, stats, pc, task,
                    local, treeVars, answers, histVars >>

ScanResultIgnoresCancel(isCancelled) == "ok"

\* scan, lines 280-292: Err(CANCELLED) when the flag is set, else Ok.
scan_result(isCancelled) == IF isCancelled THEN "cancelled" ELSE "ok"

\* scan, lines 280-292: the cancelled check, finalize_sizes and the return.
MainReturn ==
    /\ pcMain = "return"
    /\ result' = scan_result(cancelled)
    /\ IF result' = "ok"
       THEN \E T \in {finalize_sizes(layout, root_node,
                                     [children |-> children,
                                      size_bytes |-> size_bytes,
                                      disk_usage |-> disk_usage])} :
               /\ children' = T.children
               /\ size_bytes' = T.size_bytes
               /\ disk_usage' = T.disk_usage
       ELSE UNCHANGED treeVars
    /\ pcMain' = "done"
    /\ UNCHANGED << insightVars, acVars, inputVars, queueVars, cancelled, stats, pc, task, local,
                    answers, histVars >>

\* ----------------------------------------------------------- the worker threads
\* The task worker w holds.
Task(w) == task[w][1]

\* _scan_dir(parent, path) when it has read the first k entries of the directory:
\* the nodes appended to parent.children and the tuple it would return.
scan_dir(path, k) ==
    LET seen == SubSeq(scandir(layout, path), 1, k)
        IsBad(e) == EntryStat(layout, e) = "bad"
        IsDirEntry(e) == EntryStat(layout, e) = "dir"
        IsFileEntry(e) == EntryStat(layout, e) = "file"
        IsNode(e) == ~IsBad(e)
    IN  [appended |-> SelectSeq(seen, IsNode),
         dir_children |-> SelectSeq(seen, IsDirEntry),
         files |-> Len(SelectSeq(seen, IsFileEntry)),
         dirs |-> Len(SelectSeq(seen, IsDirEntry)),
         errors |-> Len(SelectSeq(seen, IsBad))]

\* The created nodes are appended to the children of the first of them.
AppendToCreated(parent, nodes) ==
    /\ children' = [children EXCEPT ![IF nodes = << >> THEN parent ELSE nodes[1]] = @ \o nodes]
    /\ size_bytes' = [n \in DOMAIN size_bytes |->
                        IF \E i \in 1 .. Len(nodes) : nodes[i] = n
                        THEN IF is_dir(layout, n) THEN 0 ELSE StatSize(layout, n)
                        ELSE size_bytes[n]]
    /\ disk_usage' = [n \in DOMAIN disk_usage |->
                        IF \E i \in 1 .. Len(nodes) : nodes[i] = n
                        THEN IF is_dir(layout, n) THEN 0 ELSE StatDiskUsage(layout, n)
                        ELSE disk_usage[n]]

\* The tree after `nodes` were created and appended to parent.children
\* (ScanNode.file carries the stat sizes, ScanNode.directory starts at 0).
AppendNodes(parent, nodes) ==
    /\ children' = [children EXCEPT ![parent] = @ \o nodes]
    /\ size_bytes' = [n \in DOMAIN size_bytes |->
                        IF \E i \in 1 .. Len(nodes) : nodes[i] = n
                        THEN IF is_dir(layout, n) THEN 0 ELSE StatSize(layout, n)
                        ELSE size_bytes[n]]
    /\ disk_usage' = [n \in DOMAIN disk_usage |->
                        IF \E i \in 1 .. Len(nodes) : nodes[i] = n
                        THEN IF is_dir(layout, n) THEN 0 ELSE StatDiskUsage(layout, n)
                        ELSE disk_usage[n]]

WithinDepthInclusive(md, depth) == md = << >> \/ depth <= md[1]

\* run_worker, line 247: options.max_depth is None or task.depth < options.max_depth
within_depth(md, depth) == md = << >> \/ depth < md[1]

\* The local counters are added to the shared stats twice.
FlushLocalTwice(st, loc) ==
    [files |-> st.files + 2 * loc.files,
     directories |-> st.directories + 2 * loc.dirs,
     access_errors |-> st.access_errors + 2 * loc.errors]

\* _flush_local: the shared stats after the local counters were added.
flush_local(st, loc) ==
    [files |-> st.files + loc.files,
     directories |-> st.directories + loc.dirs,
     access_errors |-> st.access_errors + loc.errors]

\* _WorkQueue.get, line 102: a task is popped.
GetTask(w) ==
    /\ pc[w] = "get"
    /\ get_outcome(deque, shutdown) = "task"
    /\ task' = [task EXCEPT ![w] = << Head(deque) >>]
    /\ deque' = popleft(deque)
    /\ pc' = [pc EXCEPT ![w] = "is_cancelled"]
    /\ UNCHANGED << insightVars, acVars, inputVars, pcMain, result, outstanding, done, shutdown,
                    cancelled, stats, local, treeVars, answers, histVars >>

\* _WorkQueue.get, lines 98-100, and run_worker, line 230: the sentinel.
GetSentinel(w) ==
    /\ pc[w] = "get"
    /\ get_outcome(deque, shutdown) = "sentinel"
    /\ pc' = [pc EXCEPT ![w] = "exit"]
    /\ UNCHANGED << insightVars, acVars, inputVars, pcMain, result, queueVars, cancelled, stats, task,
                    local, treeVars, answers, histVars >>

\* _WorkQueue.get, line 101: self._not_empty.wait().
GetWait(w) ==
    /\ pc[w] = "get"
    /\ get_outcome(deque, shutdown) = "wait"
    /\ pc' = [pc EXCEPT ![w] = "waiting"]
    /\ UNCHANGED << insightVars, acVars, inputVars, pcMain, result, queueVars, cancelled, stats, task,
                    local, treeVars, answers, histVars >>

\* run_worker, lines 231-232: the last flush, and the thread ends.
WorkerExit(w) ==
    /\ pc[w] = "exit"
    /\ stats' = flush_local(stats, local[w])
    /\ local' = [local EXCEPT ![w] = ZeroCounts]
    /\ pc' = [pc EXCEPT ![w] = "exited"]
    /\ UNCHANGED << insightVars, acVars, inputVars, pcMain, result, queueVars, cancelled, task,
                    treeVars, answers, histVars >>

\* Whether a call of a callback raises: a callback that may raise does or does not.
MayRaise(may) == IF may THEN BOOLEAN ELSE {FALSE}

\* run_worker, line 254: the running total went past a multiple of ProgressEvery.
crosses(prev_total, new_total) ==
    (new_total \div ProgressEvery) > (prev_total \div ProgressEvery)

\* The callback is asked before the flag is looked at.
CallbackBeforeFlag(isSet, hasCallback) ==
    IF hasCallback THEN "cancel_check"
    ELSE IF isSet THEN "task_done"
    ELSE "scan_dir"

\* _is_cancelled, lines 195-197: where the worker goes after cancelled.is_set():
\* the callback is called only when the flag is clear and a callback was given.
is_set_test(isSet, hasCallback) ==
    IF isSet THEN "task_done"
    ELSE IF hasCallback THEN "cancel_check"
    ELSE "scan_dir"

\* _is_cancelled, lines 195-197: the flag is read.
IsCancelledFlag(w) ==
    /\ pc[w] = "is_cancelled"
    /\ pc' = [pc EXCEPT ![w] = is_set_test(cancelled, hasCancel)]
    /\ observed' = IF cancelled THEN observed \cup {w} ELSE observed
    /\ UNCHANGED << insightVars, acVars, inputVars, pcMain, result, queueVars, cancelled, stats, task,
                    local, treeVars, answers, enq, scanned, raised, progress_calls >>

\* _is_cancelled, line 197: cancel_check() is called and answers, or raises.
\* run_worker calls _is_cancelled before its try statement (line 234), so the
\* exception leaves run_worker and ends the thread, with the task still held.
CancelCheck(w) ==
    /\ pc[w] = "cancel_check"
    /\ \E raises \in MayRaise(cbRaises), answer \in BOOLEAN :
          /\ answers' = IF raises THEN answers ELSE Append(answers, answer)
          /\ pc' = [pc EXCEPT ![w] = IF raises THEN "dead"
                                     ELSE IF answer THEN "cancelled_set"
                                     ELSE "scan_dir"]
          /\ observed' = IF ~raises /\ answer THEN observed \cup {w} ELSE observed
    /\ UNCHANGED << insightVars, acVars, inputVars, pcMain, result, queueVars, cancelled, stats, task,
                    local, treeVars, enq, scanned, raised, progress_calls >>

\* The worker that got true from the callback does not set the flag.
CancelledNotSet(w) ==
    /\ pc[w] = "cancelled_set"
    /\ pc' = [pc EXCEPT ![w] = "task_done"]
    /\ UNCHANGED << insightVars, acVars, inputVars, pcMain, result, queueVars, cancelled, stats,
                    task, local, treeVars, answers, histVars >>

\* _is_cancelled, lines 198-199: cancelled.set().
CancelledSet(w) ==
    /\ pc[w] = "cancelled_set"
    /\ cancelled' = TRUE
    /\ pc' = [pc EXCEPT ![w] = "task_done"]
    /\ UNCHANGED << insightVars, acVars, inputVars, pcMain, result, queueVars, stats, task, local,
                    treeVars, answers, histVars >>

\* run_worker, lines 239-260: _scan_dir returns; the counts are added to the
\* local counters and the directory children are enqueued when within depth;
\* emit_progress is called when the worker's local total went past a multiple
\* of ProgressEvery, and calls the progress_callback when there is one; an
\* exception of the callback is caught and counted as one error.
ScanDirReturns(w) ==
    /\ pc[w] = "scan_dir"
    /\ \E t \in {Task(w)} :
       \E r \in {scan_dir(t.node, Len(scandir(layout, t.node)))} :
       \E tasks \in {IF within_depth(max_depth, t.depth)
                     THEN [i \in 1 .. Len(r.dir_children) |->
                              [node |-> r.dir_children[i], depth |-> t.depth + 1]]
                     ELSE << >>} :
       \E emits \in {hasProgress /\ crosses(local[w].files + local[w].dirs,
                                             local[w].files + r.files
                                                 + local[w].dirs + r.dirs)} :
       \E raises \in MayRaise(emits /\ cbRaises) :
           /\ AppendNodes(t.node, r.appended)
           /\ local' = [local EXCEPT ![w] =
                           [files |-> @.files + r.files,
                            dirs |-> @.dirs + r.dirs,
                            errors |-> @.errors + r.errors
                                         + (IF raises THEN 1 ELSE 0)]]
           /\ progress_calls' =
                  IF emits
                  THEN Append(progress_calls,
                              [path |-> t.node,
                               files |-> stats.files + local[w].files + r.files,
                               directories |-> stats.directories + local[w].dirs + r.dirs])
                  ELSE progress_calls
           /\ deque' = deque \o tasks
           /\ outstanding' = outstanding + Len(tasks)
           /\ \E S \in notify(Len(tasks)) : pc' = Woken(w, "flush", S)
           /\ enq' = [n \in DOMAIN enq |->
                         enq[n] + Cardinality({i \in 1 .. Len(tasks) : tasks[i].node = n})]
           /\ scanned' = [scanned EXCEPT ![t.node] = @ + 1]
    /\ UNCHANGED << insightVars, acVars, inputVars, pcMain, result, done, shutdown, cancelled, stats,
                    task, answers, raised, observed >>

\* run_worker, lines 239 and 257-261: _scan_dir raises after it has read k
\* entries; what it appended stays, what it counted is lost, one error is counted.
ScanDirRaises(w) ==
    /\ pc[w] = "scan_dir"
    /\ \E t \in {Task(w)} :
           /\ \E k \in 0 .. Len(scandir(layout, t.node)) :
                 \E appended \in {scan_dir(t.node, k).appended} :
                    AppendNodes(t.node, appended)
           /\ local' = [local EXCEPT ![w].errors = @ + 1]
           /\ scanned' = [scanned EXCEPT ![t.node] = @ + 1]
           /\ raised' = raised \cup {t.node}
    /\ pc' = [pc EXCEPT ![w] = "flush"]
    /\ UNCHANGED << insightVars, acVars, inputVars, pcMain, result, queueVars, cancelled, stats, task,
                    answers, enq, progress_calls, observed >>

\* run_worker, line 263: _flush_local() in the finally block.
Flush(w) ==
    /\ pc[w] = "flush"
    /\ stats' = flush_local(stats, local[w])
    /\ local' = [local EXCEPT ![w] = ZeroCounts]
    /\ pc' = [pc EXCEPT ![w] = "task_done"]
    /\ UNCHANGED << insightVars, acVars, inputVars, pcMain, result, queueVars, cancelled, task,
                    treeVars, answers, histVars >>

\* run_worker, lines 235 and 264: q.task_done(), then the next turn of the loop.
TaskDone(w) ==
    /\ pc[w] = "task_done"
    /\ LET q == task_done(outstanding, done)
       IN  /\ outstanding' = q.outstanding
           /\ done' = q.done
    /\ task' = [task EXCEPT ![w] = << >>]
    /\ pc' = [pc EXCEPT ![w] = "get"]
    /\ UNCHANGED << insightVars, acVars, inputVars, pcMain, result, deque, shutdown, cancelled, stats,
                    local, treeVars, answers, histVars >>

\* ------------------------------------------------------------- specification
MainStep ==
    \/ MainResolveRoot
    \/ MainPutRoot
    \/ MainStartThreads
    \/ MainJoin
    \/ MainShutdown
    \/ MainThreadJoin
    \/ MainReturn

WorkerStep(w) ==
    \/ GetTask(w)
    \/ GetSentinel(w)
    \/ GetWait(w)
    \/ WorkerExit(w)
    \/ IsCancelledFlag(w)
    \/ CancelCheck(w)
    \/ CancelledSet(w)
    \/ ScanDirReturns(w)
    \/ ScanDirRaises(w)
    \/ Flush(w)
    \/ TaskDone(w)

Next == MainStep \/ \E w \in Workers : WorkerStep(w)

Spec == Init /\ [][Next]_vars

SpecFlat == InitFlat /\ [][Next]_vars

\* The scan of the nested tree with callbacks that may raise.
SpecRaise == InitRaise /\ [][Next]_vars

\* The scan of the wide tree with a progress_callback.
SpecWide == InitWide /\ [][Next]_vars

\* Threads are scheduled fairly: a thread that can take a step eventually does.
FairSpec == Spec /\ WF_vars(MainStep) /\ \A w \in Workers : WF_vars(WorkerStep(w))

\* ------------------------------------------------------- strings and paths
\* A str is the sequence of its characters.
\* str.lower() on one character: the upper-case letters and what they map to.
LowerOfUpper ==
    "A" :> "a" @@ "B" :> "b" @@ "C" :> "c" @@ "D" :> "d" @@ "E" :> "e" @@
    "F" :> "f" @@ "G" :> "g" @@ "H" :> "h" @@ "I" :> "i" @@ "J" :> "j" @@
    "K" :> "k" @@ "L" :> "l" @@ "M" :> "m" @@ "N" :> "n" @@ "O" :> "o" @@
    "P" :> "p" @@ "Q" :> "q" @@ "R" :> "r" @@ "S" :> "s" @@ "T" :> "t" @@
    "U" :> "u" @@ "V" :> "v" @@ "W" :> "w" @@ "X" :> "x" @@ "Y" :> "y" @@
    "Z" :> "z"

lower_char(c) == IF c \in DOMAIN LowerOfUpper THEN LowerOfUpper[c] ELSE c

\* str.lower()
lower(s) == [i \in 1 .. Len(s) |-> lower_char(s[i])]

\* str.startswith / str.endswith
startswith(s, p) == Len(p) <= Len(s) /\ SubSeq(s, 1, Len(p)) = p
endswith(s, p) == Len(p) <= Len(s) /\ SubSeq(s, Len(s) - Len(p) + 1, Len(s)) = p

\* str.find(c, start) for a one-character c, on 1-based positions; 0 when absent.
find(s, c, start) ==
    IF \E i \in start .. Len(s) : s[i] = c
    THEN CHOOSE i \in start .. Len(s) : s[i] = c /\ \A j \in start .. i - 1 : s[j] # c
    ELSE 0

\* str.split(",")
RECURSIVE split_comma(_)
split_comma(s) ==
    LET k == find(s, ",", 1)
    IN  IF k = 0 THEN << s >>
        ELSE << SubSeq(s, 1, k - 1) >> \o split_comma(SubSeq(s, k + 1, Len(s)))

\* ScanNode.name of the nodes of the nested layout.
node_name(n) ==
    CASE
              n = 0 -> << "r" >>
           [] n = 1 -> << "d", ".", "l", "o", "g" >>
           [] n = 2 -> << "n", "m" >>
           [] n = 4 -> << "M", "y" >>
           [] n = 5 -> << "b", ".", "l", "o", "g" >>
           [] n = 6 -> << "T", "M", "P" >>
           [] n = 7 -> << "c", ".", "L", "O", "G" >>
           [] n = 8 -> << "a", ".", "l", "o", "g" >>
      [] OTHER -> << "x" >>

\* The directory that holds entry n.
parent_of(lay, n) ==
    CHOOSE d \in NodeIds(lay) :
        \E i \in 1 .. Len(scandir(lay, d)) : scandir(lay, d)[i] = n

\* ScanNode.path: the scanned root is /r, a child's path is parent/name.
RECURSIVE node_path(_, _)
node_path(lay, n) ==
    IF n = root_node THEN << "/" >> \o node_name(n)
    ELSE node_path(lay, parent_of(lay, n)) \o << "/" >> \o node_name(n)

\* ------------------------------------------------ pattern compilation
\* ApplyTo (IntFlag): FILE, DIR and BOTH = FILE | DIR.
ApplyTo_FILE == 1
ApplyTo_DIR == 2
ApplyTo_BOTH == 3

\* A variant of the flag test under which every rule goes into every bucket.
FlagAlwaysSet(at, flag) == TRUE

\* compile_ruleset, `if at & flag`: the bitwise test of an IntFlag.
flag_test(at, flag) == (at \div flag) % 2 = 1

Categories == {"temp", "cache", "build_artifact"}

\* _has_glob_chars
has_glob_chars(s) == \E i \in 1 .. Len(s) : s[i] \in {"*", "?", "["}

\* _classify: the _Matcher (kind, value, alt) of one expanded pattern.
classify(pattern) ==
    LET glob == [kind |-> "GLOB", value |-> lower(pattern), alt |-> << >>]
        rest == SubSeq(pattern, 4, Len(pattern))
        middle == SubSeq(rest, 1, Len(rest) - 3)
    IN  IF ~startswith(pattern, << "*", "*", "/" >>) THEN glob
        ELSE IF endswith(rest, << "/", "*", "*" >>)
        THEN IF ~has_glob_chars(middle)
             THEN [kind |-> "CONTAINS",
                   value |-> << "/" >> \o lower(middle) \o << "/" >>,
                   alt |-> << "/" >> \o lower(middle)]
             ELSE glob
        ELSE IF startswith(rest, << "*" >>) /\ ~has_glob_chars(Tail(rest))
        THEN [kind |-> "ENDSWITH", value |-> lower(Tail(rest)), alt |-> << >>]
        ELSE IF endswith(rest, << "*" >>) /\ ~has_glob_chars(SubSeq(rest, 1, Len(rest) - 1))
        THEN [kind |-> "STARTSWITH", value |-> lower(SubSeq(rest, 1, Len(rest) - 1)),
              alt |-> << >>]
        ELSE IF ~has_glob_chars(rest)
        THEN [kind |-> "EXACT", value |-> lower(rest), alt |-> << >>]
        ELSE glob

\* The concatenation of the sequences of a sequence.
RECURSIVE Flatten(_)
Flatten(ss) == IF ss = << >> THEN << >> ELSE Head(ss) \o Flatten(Tail(ss))

\* _expand_braces
RECURSIVE expand_braces(_)
expand_braces(pattern) ==
    LET start == find(pattern, "{", 1)
        end == IF start = 0 THEN find(pattern, "}", 1) ELSE find(pattern, "}", start + 1)
    IN  IF start = 0 \/ end = 0 THEN << pattern >>
        ELSE LET choices == split_comma(SubSeq(pattern, start + 1, end - 1))
                 prefix == SubSeq(pattern, 1, start - 1)
                 suffix == SubSeq(pattern, end + 1, Len(pattern))
             IN  Flatten([i \in 1 .. Len(choices) |->
                             expand_braces(prefix \o choices[i] \o suffix)])

\* fnmatch.fnmatch on a POSIX system: * matches any run of characters, ?
\* matches one character, any other character matches itself.
RECURSIVE fnmatch(_, _)
fnmatch(name, pat) ==
    IF pat = << >> THEN name = << >>
    ELSE IF Head(pat) = "*"
    THEN fnmatch(name, Tail(pat)) \/ (name # << >> /\ fnmatch(Tail(name), pat))
    ELSE /\ name # << >>
         /\ Head(pat) = "?" \/ Head(pat) = Head(name)
         /\ fnmatch(Tail(name), Tail(pat))

\* _match_pattern_slow
match_pattern_slow(pattern, normalized_path, basename) ==
    \/ /\ endswith(pattern, << "/", "*", "*" >>)
       /\ fnmatch(normalized_path, SubSeq(pattern, 1, Len(pattern) - 3))
    \/ fnmatch(normalized_path, pattern)
    \/ fnmatch(basename, pattern)

\* compile_ruleset, lines 258-266: the (matcher, rule) pairs handed to the
\* builder of one node kind, in the order b.add receives them.
builder_adds(rules, flag) ==
    Flatten([i \in 1 .. Len(rules) |->
                IF flag_test(rules[i].apply_to, flag)
                THEN LET pats == expand_braces(rules[i].pattern)
                     IN  [j \in 1 .. Len(pats) |->
                             [m |-> classify(pats[j]), rule |-> rules[i]]]
                ELSE << >>])

\* compile_ruleset, lines 268-272: the additional (base, rule) pairs of one node kind.
builder_additional(additional, flag) ==
    LET Applies(a) == flag_test(a.rule.apply_to, flag)
    IN  SelectSeq(additional, Applies)

\* _ByKindBuilder.add and build: the _ByKind of one node kind.  exact and the
\* automaton's words are kept as the sequence of their insertions.
by_kind(rules, additional, flag) ==
    LET adds == builder_adds(rules, flag)
        OfKind(k) == LET Is(a) == a.m.kind = k IN SelectSeq(adds, Is)
        IsAc(a) == a.m.kind \in {"CONTAINS", "ENDSWITH"}
        ac == SelectSeq(adds, IsAc)
    IN  [exact |-> OfKind("EXACT"),
         ac_entries |-> [i \in 1 .. Len(ac) |->
                            IF ac[i].m.kind = "CONTAINS"
                            THEN [val |-> ac[i].m.value, alt |-> ac[i].m.alt,
                                  rule |-> ac[i].rule]
                            ELSE [val |-> << >>, alt |-> ac[i].m.value,
                                  rule |-> ac[i].rule]],
         startswith |-> OfKind("STARTSWITH"),
         glob |-> OfKind("GLOB"),
         additional |-> builder_additional(additional, flag)]

\* compile_ruleset
compile_ruleset(rules, additional) ==
    [for_file |-> by_kind(rules, additional, ApplyTo_FILE),
     for_dir |-> by_kind(rules, additional, ApplyTo_DIR)]

\* ------------------------------------------------------------- matching
\* _build_ac, lines 178-183: the words of the automaton, as the sequence of
\* (key, rule, end_only) insertions into the patterns dict.
build_ac(entries) ==
    Flatten([i \in 1 .. Len(entries) |->
                (IF entries[i].val # << >>
                 THEN << [key |-> entries[i].val, rule |-> entries[i].rule,
                          end_only |-> FALSE] >>
                 ELSE << >>)
                \o
                (IF entries[i].alt # << >>
                 THEN << [key |-> entries[i].alt, rule |-> entries[i].rule,
                          end_only |-> TRUE] >>
                 ELSE << >>)])

\* AhoCorasick.iter(text): one (end_idx, entries) pair for every occurrence of
\* a key, by increasing end index (0-based) and, at one end index, the longer
\* key first; entries is the list stored under the key.
ac_iter(words, text) ==
    LET Keys == {words[i].key : i \in 1 .. Len(words)}
        ValueOf(key) == LET Has(x) == x.key = key IN SelectSeq(words, Has)
        At(e) == Flatten([d \in 1 .. e |->
                            LET key == SubSeq(text, d, e)
                            IN  IF key \in Keys
                                THEN << [end_idx |-> e - 1, entries |-> ValueOf(key)] >>
                                ELSE << >>])
    IN  Flatten([e \in 1 .. Len(text) |-> At(e)])

\* match_all, lines 313-316: the rules the EXACT tier hands to _try.
exact_hits(bk, lbase) ==
    LET Hit(a) == a.m.value = lbase
        hits == SelectSeq(bk.exact, Hit)
    IN  [i \in 1 .. Len(hits) |-> hits[i].rule]

\* The automaton tier without the end-anchored test: every hit is accepted.
AcHitsAnywhere(bk, lpath) ==
    LET found == ac_iter(build_ac(bk.ac_entries), lpath)
    IN  Flatten([i \in 1 .. Len(found) |->
                    [j \in 1 .. Len(found[i].entries) |-> found[i].entries[j].rule]])

\* match_all, lines 324-330: the rules the automaton tier hands to _try.
ac_hits(bk, lpath) ==
    LET found == ac_iter(build_ac(bk.ac_entries), lpath)
        lpath_end == Len(lpath) - 1
        Accepted(end_idx, entries) ==
            LET Ok(x) == ~(x.end_only /\ end_idx # lpath_end)
                ok == SelectSeq(entries, Ok)
            IN  [i \in 1 .. Len(ok) |-> ok[i].rule]
    IN  Flatten([i \in 1 .. Len(found) |-> Accepted(found[i].end_idx, found[i].entries)])

\* match_all, lines 333-335: the rules the STARTSWITH tier hands to _try.
startswith_hits(bk, lbase) ==
    LET Hit(a) == startswith(lbase, a.m.value)
        hits == SelectSeq(bk.startswith, Hit)
    IN  [i \in 1 .. Len(hits) |-> hits[i].rule]

\* match_all, lines 338-340: the rules the GLOB tier hands to _try.
glob_hits(bk, lpath, lbase) ==
    LET Hit(a) == match_pattern_slow(a.m.value, lpath, lbase)
        hits == SelectSeq(bk.glob, Hit)
    IN  [i \in 1 .. Len(hits) |-> hits[i].rule]

\* match_all, lines 343-346: the rules the additional tier hands to _try.
additional_hits(bk, raw_path) ==
    LET Hit(a) == raw_path = a.base \/ startswith(raw_path, a.base \o << "/" >>)
        hits == SelectSeq(bk.additional, Hit)
    IN  [i \in 1 .. Len(hits) |-> hits[i].rule]

\* A variant of _try that lacks the per-category gate: every rule is kept.
TryAllNoGate(rules, matched, seen) == matched \o rules

\* match_all._try over a sequence of rules: a rule is appended to matched
\* unless its category was seen.
RECURSIVE try_all(_, _, _)
try_all(rules, matched, seen) ==
    IF rules = << >> THEN matched
    ELSE LET rule == Head(rules)
         IN  IF rule.category \notin seen
             THEN try_all(Tail(rules), Append(matched, rule), seen \cup {rule.category})
             ELSE try_all(Tail(rules), matched, seen)

\* A variant that evaluates the tiers in the opposite order.
TierHitsReversed(bk, lpath, lbase, raw_path) ==
    additional_hits(bk, raw_path)
    \o glob_hits(bk, lpath, lbase)
    \o startswith_hits(bk, lbase)
    \o ac_hits(bk, lpath)
    \o exact_hits(bk, lbase)

\* match_all, lines 312-346: the rules handed to _try, in the order of the tiers.
tier_hits(bk, lpath, lbase, raw_path) ==
    exact_hits(bk, lbase)
    \o ac_hits(bk, lpath)
    \o startswith_hits(bk, lbase)
    \o glob_hits(bk, lpath, lbase)
    \o additional_hits(bk, raw_path)

\* match_all
match_all(rs, lpath, lbase, isdir, raw_path) ==
    LET bk == IF isdir THEN rs.for_dir ELSE rs.for_file
    IN  try_all(tier_hits(bk, lpath, lbase, raw_path), << >>, {})

\* ------------------------------------------------------------ configuration
\* The characters of the model in the order of their code points.
CharOrder == <<
    "*", ",", ".", "/", "?", "A", "B", "C", "D", "E", "F", "G", "H", "I",
    "J", "K", "L", "M", "N", "O", "P", "Q", "R", "S", "T", "U", "V", "W",
    "X", "Y", "Z", "[", "a", "b", "c", "d", "e", "f", "g", "h", "i", "j",
    "k", "l", "m", "n", "o", "p", "q", "r", "s", "t", "u", "v", "w", "x",
    "y", "z", "{", "}" >>

\* PatternRule values a configuration is built from: a suffix rule, a segment
\* rule, a stop_recursion rule and a rule of its category that matches the
\* same directory in an earlier tier, a glob, a prefix rule, a rule with
\* braces and a pattern without the **/ prefix.
RuleCatalog == <<
    [name |-> "logs", pattern |-> << "*", "*", "/", "*", ".", "l", "o", "g" >>,
     category |-> "temp", apply_to |-> ApplyTo_FILE, stop_recursion |-> FALSE],
    [name |-> "tmpdir", pattern |-> << "*", "*", "/", "t", "m", "p", "/", "*", "*" >>,
     category |-> "temp", apply_to |-> ApplyTo_BOTH, stop_recursion |-> FALSE],
    [name |-> "nmstop", pattern |-> << "*", "*", "/", "n", "m", "/", "*", "*" >>,
     category |-> "build_artifact", apply_to |-> ApplyTo_DIR, stop_recursion |-> TRUE],
    [name |-> "nm", pattern |-> << "*", "*", "/", "N", "M" >>,
     category |-> "build_artifact", apply_to |-> ApplyTo_BOTH, stop_recursion |-> FALSE],
    [name |-> "anylog", pattern |-> << "*", "*", "/", "?", ".", "l", "o", "g" >>,
     category |-> "build_artifact", apply_to |-> ApplyTo_BOTH, stop_recursion |-> FALSE],
    [name |-> "prefix", pattern |-> << "*", "*", "/", "a", "*" >>,
     category |-> "cache", apply_to |-> ApplyTo_FILE, stop_recursion |-> FALSE],
    [name |-> "braces",
     pattern |-> << "*", "*", "/", "{", "a", ",", "b", "}", ".", "l", "o", "g" >>,
     category |-> "cache", apply_to |-> ApplyTo_BOTH, stop_recursion |-> FALSE],
    [name |-> "my", pattern |-> << "*", "/", "m", "y", "/", "*", "*" >>,
     category |-> "temp", apply_to |-> ApplyTo_DIR, stop_recursion |-> FALSE] >>

\* The rules of the catalog the insight scenarios draw from.
InsightRules == {1, 2, 3, 4, 5}

\* The sequences of at most n different rules of the catalog entries in ids.
RECURSIVE RuleSeqs(_, _)
RuleSeqs(ids, n) ==
    IF n = 0 THEN {<< >>}
    ELSE {<< >>} \cup
         UNION {{<< RuleCatalog[i] >> \o s : s \in RuleSeqs(ids \ {i}, n - 1)} :
                    i \in ids}

\* config.additional_paths, as (category, raw base) pairs in the order of the
\* dict: none, a directory named in its own case, a lower-case directory with
\* a trailing slash.
AdditionalChoices ==
    {<< >>,
     << [category |-> "cache", raw_base |-> << "/", "r", "/", "M", "y" >>] >>,
     << [category |-> "temp", raw_base |-> << "/", "r", "/", "n", "m", "/" >>] >>}

\* ------------------------------------------------------- insight generation
\* The code point order of two characters, and str < str.
ord(c) == CHOOSE i \in 1 .. Len(CharOrder) : CharOrder[i] = c

RECURSIVE str_lt(_, _)
str_lt(a, b) ==
    IF b = << >> THEN FALSE
    ELSE IF a = << >> THEN TRUE
    ELSE IF Head(a) = Head(b) THEN str_lt(Tail(a), Tail(b))
    ELSE ord(Head(a)) < ord(Head(b))

\* str.rstrip("/")
RECURSIVE rstrip_slash(_)
rstrip_slash(s) ==
    IF s # << >> /\ s[Len(s)] = "/" THEN rstrip_slash(SubSeq(s, 1, Len(s) - 1)) ELSE s

\* generate_insights, lines 56-71: the (base, rule) pairs of the additional paths.
additional_path_rules(additional) ==
    [i \in 1 .. Len(additional) |->
        LET base == lower(rstrip_slash(additional[i].raw_base))
        IN  [base |-> base,
             rule |-> [name |-> "Additional path", pattern |-> base,
                       category |-> additional[i].category,
                       apply_to |-> ApplyTo_BOTH, stop_recursion |-> FALSE]]]

\* _insight_from_rule
insight_from_rule(path, size, usage, rule) ==
    [path |-> path, size_bytes |-> size, category |-> rule.category,
     summary |-> rule.name, disk_usage |-> usage]

\* _HeapEntry: (disk_usage, path, Insight); the order of two entries is the
\* order of tuples (two entries of one heap never agree on both).
heap_entry(insight) == << insight.disk_usage, insight.path, insight >>

entry_lt(a, b) == a[1] < b[1] \/ (a[1] = b[1] /\ str_lt(a[2], b[2]))

\* heapq._siftdown(heap, startpos, pos), on 0-based positions.
RECURSIVE siftdown(_, _, _, _)
siftdown(heap, startpos, pos, newitem) ==
    IF pos > startpos /\ entry_lt(newitem, heap[((pos - 1) \div 2) + 1])
    THEN siftdown([heap EXCEPT ![pos + 1] = heap[((pos - 1) \div 2) + 1]],
                  startpos, (pos - 1) \div 2, newitem)
    ELSE [heap EXCEPT ![pos + 1] = newitem]

\* heapq._siftup(heap, pos): the smaller child is moved up until a leaf is
\* reached, then the item is sifted down from there.
RECURSIVE siftup_loop(_, _, _, _)
siftup_loop(heap, startpos, pos, newitem) ==
    LET endpos == Len(heap)
        childpos == 2 * pos + 1
        rightpos == childpos + 1
        child == IF rightpos < endpos /\ ~entry_lt(heap[childpos + 1], heap[rightpos + 1])
                 THEN rightpos ELSE childpos
    IN  IF childpos < endpos
        THEN siftup_loop([heap EXCEPT ![pos + 1] = heap[child + 1]],
                         startpos, child, newitem)
        ELSE siftdown([heap EXCEPT ![pos + 1] = newitem], startpos, pos, newitem)

\* heapq.heappush
heappush(heap, item) == siftdown(Append(heap, item), 0, Len(heap), item)

\* heapq.heapreplace
heapreplace(heap, item) == siftup_loop([heap EXCEPT ![1] = item], 0, 0, item)

\* Variants of _heap_push: one that has no bound, and one that replaces the
\* smallest entry of a full heap by every new insight.
HeapPushUnbounded(heap, seen, insight, max_size) ==
    [heap |-> heappush(heap, heap_entry(insight)),
     seen |-> seen \cup {<< insight.path, insight.disk_usage >>}]

HeapPushNewest(heap, seen, insight, max_size) ==
    [heap |-> IF Len(heap) < max_size THEN heappush(heap, heap_entry(insight))
              ELSE heapreplace(heap, heap_entry(insight)),
     seen |-> seen \cup {<< insight.path, insight.disk_usage >>}]

\* A variant of _heap_push without the seen test: every insight is offered to
\* the heap.
HeapPushNoSeenTest(heap, seen, insight, max_size) ==
    LET prev == {p \in seen : p[1] = insight.path}
        seen1 == (seen \ prev) \cup {<< insight.path, insight.disk_usage >>}
        entry == heap_entry(insight)
    IN  IF Len(heap) < max_size
        THEN [heap |-> heappush(heap, entry), seen |-> seen1]
        ELSE IF insight.disk_usage > heap[1][1]
        THEN [heap |-> heapreplace(heap, entry), seen |-> seen1]
        ELSE [heap |-> heap, seen |-> seen1]

\* A variant of _heap_push that skips an insight only when its usage is
\* strictly below the one recorded for its path.
HeapPushSkipLower(heap, seen, insight, max_size) ==
    LET prev == {p \in seen : p[1] = insight.path}
        seen1 == (seen \ prev) \cup {<< insight.path, insight.disk_usage >>}
        entry == heap_entry(insight)
    IN  IF prev # {} /\ (\A p \in prev : insight.disk_usage < p[2])
        THEN [heap |-> heap, seen |-> seen]
        ELSE IF Len(heap) < max_size
        THEN [heap |-> heappush(heap, entry), seen |-> seen1]
        ELSE IF insight.disk_usage > heap[1][1]
        THEN [heap |-> heapreplace(heap, entry), seen |-> seen1]
        ELSE [heap |-> heap, seen |-> seen1]

\* A variant of _heap_push that records the usage in seen only when the heap
\* took the entry.
HeapPushSeenOnAccept(heap, seen, insight, max_size) ==
    LET prev == {p \in seen : p[1] = insight.path}
        seen1 == (seen \ prev) \cup {<< insight.path, insight.disk_usage >>}
        entry == heap_entry(insight)
    IN  IF prev # {} /\ (\A p \in prev : insight.disk_usage <= p[2])
        THEN [heap |-> heap, seen |-> seen]
        ELSE IF Len(heap) < max_size
        THEN [heap |-> heappush(heap, entry), seen |-> seen1]
        ELSE IF insight.disk_usage > heap[1][1]
        THEN [heap |-> heapreplace(heap, entry), seen |-> seen1]
        ELSE [heap |-> heap, seen |-> seen]

\* _heap_push: the heap and the seen dict (a set of (path, usage) pairs, one
\* per path) after the insight was offered.
heap_push(heap, seen, insight, max_size) ==
    LET prev == {p \in seen : p[1] = insight.path}
        seen1 == (seen \ prev) \cup {<< insight.path, insight.disk_usage >>}
        entry == heap_entry(insight)
    IN  IF prev # {} /\ (\A p \in prev : insight.disk_usage <= p[2])
        THEN [heap |-> heap, seen |-> seen]
        ELSE IF Len(heap) < max_size
        THEN [heap |-> heappush(heap, entry), seen |-> seen1]
        ELSE IF insight.disk_usage > heap[1][1]
        THEN [heap |-> heapreplace(heap, entry), seen |-> seen1]
        ELSE [heap |-> heap, seen |-> seen1]

\* A variant of _record that counts an insight only when the heap took it.
RecordRetainedOnly(st, insight, max_size) ==
    LET c == insight.category
        cs == st.by_category[c]
        hp == heap_push(st.heaps[c], st.seen[c], insight, max_size)
        took == hp.heap # st.heaps[c]
    IN  [by_category |-> [st.by_category EXCEPT ![c] =
                             [count |-> cs.count + (IF took THEN 1 ELSE 0),
                              size_bytes |-> cs.size_bytes
                                             + (IF took THEN insight.size_bytes ELSE 0),
                              disk_usage |-> cs.disk_usage
                                             + (IF took THEN insight.disk_usage ELSE 0),
                              paths |-> cs.paths \cup {insight.path}]],
         heaps |-> [st.heaps EXCEPT ![c] = hp.heap],
         seen |-> [st.seen EXCEPT ![c] = hp.seen]]

\* generate_insights._record: the aggregate counters of the category and its
\* heap after one insight.
record(st, insight, max_size) ==
    LET c == insight.category
        cs == st.by_category[c]
        hp == heap_push(st.heaps[c], st.seen[c], insight, max_size)
    IN  [by_category |-> [st.by_category EXCEPT ![c] =
                             [count |-> cs.count + 1,
                              size_bytes |-> cs.size_bytes + insight.size_bytes,
                              disk_usage |-> cs.disk_usage + insight.disk_usage,
                              paths |-> cs.paths \cup {insight.path}]],
         heaps |-> [st.heaps EXCEPT ![c] = hp.heap],
         seen |-> [st.seen EXCEPT ![c] = hp.seen]]

\* A variant of the loop that records the insight of the first matched rule only.
RecordFirstOnly(st, found, max_size) ==
    IF found = << >> THEN st ELSE record(st, Head(found), max_size)

\* generate_insights, lines 128-129: _record for every matched rule, in order.
RECURSIVE record_all(_, _, _)
record_all(st, found, max_size) ==
    IF found = << >> THEN st
    ELSE record_all(record(st, Head(found), max_size), Tail(found), max_size)

\* InsightCategory, in the order of the enum.
InsightCategory == << "temp", "cache", "build_artifact" >>

\* sorted(..., key=usage, reverse=True) on a sequence of records or tuples:
\* stable, largest first.
sorted_desc(s, Key(_)) ==
    LET idx == [i \in 1 .. Len(s) |-> i]
        key == [i \in 1 .. Len(s) |-> Key(s[i])]
        ordered == SortByDiskUsage(idx, key)
    IN  [i \in 1 .. Len(s) |-> s[ordered[i]]]

\* generate_insights, lines 151-156: the insights of one heap, largest first,
\* the first entry of every path only.
RECURSIVE dedup(_, _)
dedup(entries, cat_seen) ==
    IF entries = << >> THEN << >>
    ELSE IF Head(entries)[2] \in cat_seen THEN dedup(Tail(entries), cat_seen)
    ELSE << Head(entries)[3] >> \o dedup(Tail(entries), cat_seen \cup {Head(entries)[2]})

heap_insights(heap) ==
    LET EntryUsage(e) == e[1]
    IN  dedup(sorted_desc(heap, EntryUsage), {})

\* A variant of the merge that lacks the final sort: the insights of the
\* categories are concatenated.
MergeUnsorted(hs) ==
    Flatten([i \in 1 .. Len(InsightCategory) |-> heap_insights(hs[InsightCategory[i]])])

\* generate_insights, lines 149-158: the merged list, sorted by disk_usage.
merge_heaps(hs) ==
    LET InsightUsage(x) == x.disk_usage
    IN  sorted_desc(Flatten([i \in 1 .. Len(InsightCategory) |->
                                heap_insights(hs[InsightCategory[i]])]),
                    InsightUsage)

\* ------------------------------------------- generate_insights as a process
\* The tree a successful scan of the nested layout returns when the files
\* have the disk usage `usage` (a function on the file nodes).
scanned_tree(usage) ==
    LET ids == NodeIds("nested")
        IsNode(e) == EntryStat("nested", e) # "bad"
    IN  finalize_sizes("nested", root_node,
            [children |-> [n \in ids |-> SelectSeq(scandir("nested", n), IsNode)],
             size_bytes |-> [n \in ids |-> IF EntryStat("nested", n) = "file"
                                             THEN StatSize("nested", n) ELSE 0],
             disk_usage |-> [n \in ids |-> IF n \in DOMAIN usage THEN usage[n] ELSE 0]])

FileNodes == {n \in NodeIds("nested") : EntryStat("nested", n) = "file"}

\* The scanner after scan returned Ok for the nested layout (one worker, no
\* cancel_check, no max_depth), with the tree T.
ScanReturned(T) ==
    /\ layout = "nested"
    /\ rootExists = TRUE
    /\ rootStatRaises = FALSE
    /\ rootIsDir = TRUE
    /\ max_depth = << >>
    /\ hasCancel = FALSE
    /\ hasProgress = FALSE
    /\ cbRaises = FALSE
    /\ progress_calls = << >>
    /\ observed = {}
    /\ numWorkers = 1
    /\ pcMain = "done"
    /\ result = "ok"
    /\ deque = << >>
    /\ outstanding = 0
    /\ done = TRUE
    /\ shutdown = TRUE
    /\ cancelled = FALSE
    /\ stats = [files |-> 4, directories |-> 4, access_errors |-> 1]
    /\ pc = [w \in Workers |-> IF w = 1 THEN "exited" ELSE "unstarted"]
    /\ task = [w \in Workers |-> << >>]
    /\ local = [w \in Workers |-> ZeroCounts]
    /\ children = T.children
    /\ size_bytes = T.size_bytes
    /\ disk_usage = T.disk_usage
    /\ answers = << >>
    /\ enq = [n \in NodeIds("nested") |-> IF is_dir("nested", n) THEN 1 ELSE 0]
    /\ scanned = [n \in NodeIds("nested") |-> IF is_dir("nested", n) THEN 1 ELSE 0]
    /\ raised = {}

\* An AppConfig: patterns, additional_paths and max_insights_per_category.
ConfigFrom(ids, maxRules) ==
    /\ patterns \in RuleSeqs(ids, maxRules)
    /\ additional_paths \in AdditionalChoices
    /\ max_insights \in 1 .. MaxInsights

EmptyState ==
    [by_category |-> [c \in Categories |->
                         [count |-> 0, size_bytes |-> 0, disk_usage |-> 0, paths |-> {}]],
     heaps |-> [c \in Categories |-> << >>],
     seen |-> [c \in Categories |-> {}]]

\* generate_insights was called with a finalized tree and a config.
InitInsights ==
    /\ \E usage \in [FileNodes -> 1 .. MaxUsage] : ScanReturned(scanned_tree(usage))
    /\ ConfigFrom(InsightRules, MaxRules)
    /\ ACIdle
    /\ ipc = "start"
    /\ matchres = << >>
    /\ istack = << >>
    /\ heaps = EmptyState.heaps
    /\ hseen = EmptyState.seen
    /\ by_category = EmptyState.by_category
    /\ insights = << >>
    /\ visited = {}
    /\ recorded = {}
    /\ filtered = << >>

\* A ruleset was compiled from a config and match_all is called on it.
InitMatch ==
    /\ ScanReturned(scanned_tree([n \in FileNodes |-> 1]))
    /\ ConfigFrom(DOMAIN RuleCatalog, MaxRules)
    /\ ACIdle
    /\ ipc = "match"
    /\ matchres = << >>
    /\ istack = << >>
    /\ heaps = EmptyState.heaps
    /\ hseen = EmptyState.seen
    /\ by_category = EmptyState.by_category
    /\ insights = << >>
    /\ visited = {}
    /\ recorded = {}
    /\ filtered = << >>

\* The CompiledRuleSet generate_insights builds from the config (lines 56-77).
ruleset_of(rules, additional) ==
    compile_ruleset(rules, additional_path_rules(additional))

\* generate_insights, line 124: match_all for a node; lpath and lbase are the
\* lower-cased path and name, raw_path is node.path.
match_node(rs, path, name, isdir) == match_all(rs, lower(path), lower(name), isdir, path)

\* generate_insights, lines 56-108: the rules are compiled, the heaps and the
\* counters are created and the root is pushed.
GenerateInsightsStart ==
    /\ ipc = "start"
    /\ istack' = << [node |-> root_node, in_temp_or_cache |-> FALSE] >>
    /\ heaps' = EmptyState.heaps
    /\ hseen' = EmptyState.seen
    /\ by_category' = EmptyState.by_category
    /\ ipc' = "traverse"
    /\ UNCHANGED << scanVars, acVars, configVars, matchres, insights, visited, recorded, filtered >>

\* generate_insights, lines 110-113: an entry below a TEMP or CACHE match is
\* popped and dropped.
InsightSkip ==
    /\ ipc = "traverse"
    /\ istack # << >>
    /\ istack[Len(istack)].in_temp_or_cache
    /\ istack' = SubSeq(istack, 1, Len(istack) - 1)
    /\ UNCHANGED << scanVars, acVars, configVars, ipc, matchres, heaps, hseen, by_category,
                    insights, visited, recorded, filtered >>

\* Variants of the two flags: the children are pushed unmarked, whatever
\* the category of the matched rules; no matched rule stops the recursion.
NeverInTempCache(matched) == FALSE

NoBuildRule(matched) == FALSE

\* generate_insights, lines 130-133: what the matched rules say about the children.
local_in_temp_cache(matched) ==
    \E i \in 1 .. Len(matched) : matched[i].category \in {"temp", "cache"}

build_rule_set(matched) == \E i \in 1 .. Len(matched) : matched[i].stop_recursion

\* generate_insights, lines 135-141: the entries pushed for a node's children.
pushed_children(isdir, matched, kids) ==
    IF isdir /\ ~build_rule_set(matched)
    THEN [i \in 1 .. Len(kids) |->
             [node |-> kids[Len(kids) + 1 - i],
              in_temp_or_cache |-> local_in_temp_cache(matched)]]
    ELSE << >>

\* generate_insights, lines 115-141: a node is popped, matched, its insights
\* are recorded and its children are pushed.
InsightVisit ==
    /\ ipc = "traverse"
    /\ istack # << >>
    /\ ~istack[Len(istack)].in_temp_or_cache
    /\ \E node \in {istack[Len(istack)].node} :
       \E path \in {node_path(layout, node)} :
       \E matched \in {match_node(ruleset_of(patterns, additional_paths), path,
                                  node_name(node), is_dir(layout, node))} :
       \E found \in {[i \in 1 .. Len(matched) |->
                         insight_from_rule(path, size_bytes[node], disk_usage[node],
                                           matched[i])]} :
       \E st \in {record_all([by_category |-> by_category, heaps |-> heaps,
                              seen |-> hseen], found, max_insights)} :
           /\ by_category' = st.by_category
           /\ heaps' = st.heaps
           /\ hseen' = st.seen
           /\ istack' = SubSeq(istack, 1, Len(istack) - 1)
                        \o pushed_children(is_dir(layout, node), matched, children[node])
           /\ visited' = visited \cup {node}
           /\ recorded' = recorded \cup {found[i] : i \in 1 .. Len(found)}
    /\ UNCHANGED << scanVars, acVars, configVars, ipc, matchres, insights, filtered >>

\* generate_insights, lines 149-163: the heaps are merged into the bundle.
InsightMerge ==
    /\ ipc = "traverse"
    /\ istack = << >>
    /\ insights' = merge_heaps(heaps)
    /\ ipc' = "done"
    /\ UNCHANGED << scanVars, acVars, configVars, matchres, istack, heaps, hseen,
                    by_category, visited, recorded, filtered >>

\* The last path segment of a path.
RECURSIVE basename_of(_)
basename_of(path) ==
    IF find(path, "/", 1) = 0 THEN path
    ELSE basename_of(SubSeq(path, find(path, "/", 1) + 1, Len(path)))

\* str.upper() on the characters of the model.
upper(s) ==
    [i \in 1 .. Len(s) |->
        IF \E c \in DOMAIN LowerOfUpper : LowerOfUpper[c] = s[i]
        THEN CHOOSE c \in DOMAIN LowerOfUpper : LowerOfUpper[c] = s[i]
        ELSE s[i]]

\* The case variants of a path that are tried: as it is, lower and upper case.
CaseVariants(path) == {path, lower(path), upper(path)}

\* The paths match_all is called with: the paths of the nodes and their variants.
MatchPaths ==
    UNION {CaseVariants(node_path("nested", n)) :
              n \in {m \in NodeIds("nested") : EntryStat("nested", m) # "bad"}}

\* A caller lower-cases the path and the basename and passes the path as
\* raw_path, once; the call and what it returned are kept.
MatchAll ==
    /\ ipc = "match"
    /\ \E path \in MatchPaths, isdir \in BOOLEAN :
          matchres' = << [path |-> path, is_dir |-> isdir,
                          hits |-> match_node(ruleset_of(patterns, additional_paths),
                                              path, basename_of(path), isdir)] >>
    /\ ipc' = "matched"
    /\ UNCHANGED << scanVars, acVars, configVars, istack, heaps, hseen, by_category,
                    insights, visited, recorded, filtered >>

\* filter_insights, line 178: the insights of the bundle whose category is
\* one of the chosen, in the order of the bundle.
filter_insights(bundle, categories) ==
    SelectSeq(bundle, LAMBDA i : i.category \in categories)

\* A caller filters the returned bundle by a set of categories.
FilterInsights ==
    /\ ipc = "done"
    /\ \E categories \in SUBSET Categories :
          filtered' = << [categories |-> categories,
                          result |-> filter_insights(insights, categories)] >>
    /\ ipc' = "filtered"
    /\ UNCHANGED << scanVars, acVars, configVars, matchres, istack, heaps, hseen,
                    by_category, insights, visited, recorded >>

InsightStep ==
    \/ GenerateInsightsStart
    \/ InsightSkip
    \/ InsightVisit
    \/ InsightMerge
    \/ FilterInsights

InsightSpec == InitInsights /\ [][InsightStep]_vars

MatchSpec == InitMatch /\ [][MatchAll]_vars

\* ------------------------------------------------ the Aho-Corasick automaton
\* Node i of the automaton (the root is node 0).
NodeOf(nodes, i) == nodes[i + 1]

\* add_word: the key is inserted into the trie from node cur on; the value
\* is written to the node the key ends in, over a value that was there.
RECURSIVE trie_insert(_, _, _, _)
trie_insert(nodes, cur, key, value) ==
    IF key = << >> THEN [nodes EXCEPT ![cur + 1].output = value]
    ELSE LET c == Head(key)
             nxt == NodeOf(nodes, cur).next[c]
         IN  IF nxt = -1
             THEN trie_insert(Append([nodes EXCEPT ![cur + 1].next[c] = Len(nodes)],
                                     EmptyNode),
                              Len(nodes), Tail(key), value)
             ELSE trie_insert(nodes, nxt, Tail(key), value)

\* add_word variant that keeps the value a key already has.
AddWordKeepsFirst(a, key, value) ==
    LET nodes == trie_insert(a.nodes, 0, key, value)
        Old(i) == IF i <= Len(a.nodes) /\ a.nodes[i].output # 0
                  THEN a.nodes[i].output ELSE nodes[i].output
    IN  [a EXCEPT !.nodes = [i \in 1 .. Len(nodes) |->
                               [nodes[i] EXCEPT !.output = Old(i)]]]

add_word(a, key, value) == [a EXCEPT !.nodes = trie_insert(a.nodes, 0, key, value)]

\* The node reached from f by character c, following failure links.
RECURSIVE ac_goto(_, _, _)
ac_goto(nodes, f, c) ==
    IF NodeOf(nodes, f).next[c] # -1 THEN NodeOf(nodes, f).next[c]
    ELSE IF f = 0 THEN 0
    ELSE ac_goto(nodes, NodeOf(nodes, f).fail, c)

\* The characters in the order the children of a node are walked.
AcChars == << "a", "b" >>

\* make_automaton: breadth first from the root, the failure link of a child
\* is the node its parent's failure link leads to by the child's character,
\* and its dict-suffix link is the nearest node on its failure chain that
\* ends a key.
RECURSIVE ac_links(_, _)
ac_links(nodes, queue) ==
    IF queue = << >> THEN nodes
    ELSE LET u == Head(queue)
             kids == SelectSeq(AcChars, LAMBDA c : NodeOf(nodes, u).next[c] # -1)
             Link(ns, c) ==
                 LET v == NodeOf(ns, u).next[c]
                     f == IF u = 0 THEN 0 ELSE ac_goto(ns, NodeOf(ns, u).fail, c)
                     d == IF f > 0 /\ NodeOf(ns, f).output # 0 THEN f
                          ELSE NodeOf(ns, f).dict_suffix
                 IN  [ns EXCEPT ![v + 1].fail = f, ![v + 1].dict_suffix = d]
             linked == IF Len(kids) = 0 THEN nodes
                       ELSE IF Len(kids) = 1 THEN Link(nodes, kids[1])
                       ELSE Link(Link(nodes, kids[1]), kids[2])
         IN  ac_links(linked,
                      Tail(queue) \o [i \in 1 .. Len(kids) |-> NodeOf(nodes, u).next[kids[i]]])

\* make_automaton variant that leaves the dict-suffix links unset.
MakeWithoutDictSuffix(a) ==
    LET nodes == ac_links(a.nodes, << 0 >>)
    IN  [nodes |-> [i \in 1 .. Len(nodes) |-> [nodes[i] EXCEPT !.dict_suffix = 0]],
         built |-> TRUE]

make_automaton(a) == [nodes |-> ac_links(a.nodes, << 0 >>), built |-> TRUE]

\* iter, the inner loop: the values of the keys that end at the node, the
\* node's own first and then along the dict-suffix links; the loop stops at
\* the root.
RECURSIVE ac_collect(_, _, _)
ac_collect(nodes, tmp, i) ==
    IF tmp <= 0 THEN << >>
    ELSE (IF NodeOf(nodes, tmp).output # 0
          THEN << << i, NodeOf(nodes, tmp).output >> >> ELSE << >>)
         \o ac_collect(nodes, NodeOf(nodes, tmp).dict_suffix, i)

\* iter: the text is walked once; i is the zero-based index of the character.
RECURSIVE ac_walk(_, _, _, _)
ac_walk(nodes, cur, text, i) ==
    IF i >= Len(text) THEN << >>
    ELSE LET nxt == ac_goto(nodes, cur, text[i + 1])
         IN  ac_collect(nodes, nxt, i) \o ac_walk(nodes, nxt, text, i + 1)

automaton_iter(a, text) == ac_walk(a.nodes, 0, text, 0)

\* The sequences over the alphabet of a length up to n.
RECURSIVE Strings(_)
Strings(n) ==
    IF n = 0 THEN {<< >>}
    ELSE Strings(n - 1) \cup {Append(t, c) : t \in Strings(n - 1), c \in AcAlphabet}

\* Variants of the phase checks: every call is accepted in either phase.
AddWordAnyPhase(a) == FALSE

MakeAnyPhase(a) == FALSE

IterAnyPhase(a) == FALSE

\* The phase checks: add_word and make_automaton raise RuntimeError on a
\* built automaton, iter on one that was not built.
add_word_raises(a) == a.built

make_automaton_raises(a) == a.built

iter_raises(a) == ~a.built

\* ac.add_word(key, value); the value is the number of the call.
ACAddWord ==
    /\ ipc = "automaton"
    /\ \E key \in Strings(MaxKeyLen) :
          IF add_word_raises(automaton)
          THEN /\ fcall' = << [op |-> "add_word", arg |-> key, result |-> << >>,
                               error |-> TRUE] >>
               /\ UNCHANGED << automaton, ac_words >>
          ELSE /\ Len(ac_words) < MaxWords
               /\ automaton' = add_word(automaton, key, Len(ac_words) + 1)
               /\ ac_words' = Append(ac_words, << key, Len(ac_words) + 1 >>)
               /\ fcall' = << [op |-> "add_word", arg |-> key, result |-> << >>,
                               error |-> FALSE] >>
    /\ UNCHANGED << scanVars, insightVars >>

\* ac.make_automaton()
ACMakeAutomaton ==
    /\ ipc = "automaton"
    /\ IF make_automaton_raises(automaton)
       THEN /\ fcall' = << [op |-> "make_automaton", arg |-> << >>, result |-> << >>,
                            error |-> TRUE] >>
            /\ UNCHANGED << automaton, ac_words >>
       ELSE /\ automaton' = make_automaton(automaton)
            /\ fcall' = << [op |-> "make_automaton", arg |-> << >>, result |-> << >>,
                            error |-> FALSE] >>
            /\ UNCHANGED ac_words
    /\ UNCHANGED << scanVars, insightVars >>

\* ac.iter(text)
ACIter ==
    /\ ipc = "automaton"
    /\ \E text \in Strings(MaxTextLen) :
          IF iter_raises(automaton)
          THEN fcall' = << [op |-> "iter", arg |-> text, result |-> << >>,
                            error |-> TRUE] >>
          ELSE fcall' = << [op |-> "iter", arg |-> text,
                            result |-> automaton_iter(automaton, text), error |-> FALSE] >>
    /\ UNCHANGED << scanVars, insightVars, automaton, ac_words >>

ACStep == ACAddWord \/ ACMakeAutomaton \/ ACIter

\* An automaton was constructed; nothing was added yet.
InitAC ==
    /\ ScanReturned(scanned_tree([n \in FileNodes |-> 1]))
    /\ patterns = << >>
    /\ additional_paths = << >>
    /\ max_insights = 1
    /\ ipc = "automaton"
    /\ matchres = << >>
    /\ istack = << >>
    /\ heaps = EmptyState.heaps
    /\ hseen = EmptyState.seen
    /\ by_category = EmptyState.by_category
    /\ insights = << >>
    /\ visited = {}
    /\ recorded = {}
    /\ filtered = << >>
    /\ ACIdle

ACSpec == InitAC /\ [][ACStep]_vars

\* ------------------------------------------------------------ brace expansion
\* The characters of the patterns that are expanded.
BraceAlphabet == {"a", "{", "}", ","}

RECURSIVE BracePatterns(_)
BracePatterns(n) ==
    IF n = 0 THEN {<< >>}
    ELSE BracePatterns(n - 1)
         \cup {Append(t, c) : t \in BracePatterns(n - 1), c \in BraceAlphabet}

\* compile_ruleset, line 260: _expand_braces(rule.pattern) for a pattern.
ExpandBraces ==
    /\ ipc = "braces"
    /\ \E pattern \in BracePatterns(MaxPatLen) :
          fcall' = << [op |-> "expand_braces", arg |-> pattern,
                       result |-> expand_braces(pattern), error |-> FALSE] >>
    /\ ipc' = "expanded"
    /\ UNCHANGED << scanVars, configVars, matchres, istack, heaps, hseen, by_category,
                    insights, visited, recorded, filtered, automaton, ac_words >>

\* A rule pattern is about to be compiled.
InitBraces ==
    /\ ScanReturned(scanned_tree([n \in FileNodes |-> 1]))
    /\ patterns = << >>
    /\ additional_paths = << >>
    /\ max_insights = 1
    /\ ipc = "braces"
    /\ matchres = << >>
    /\ istack = << >>
    /\ heaps = EmptyState.heaps
    /\ hseen = EmptyState.seen
    /\ by_category = EmptyState.by_category
    /\ insights = << >>
    /\ visited = {}
    /\ recorded = {}
    /\ filtered = << >>
    /\ ACIdle

BraceSpec == InitBraces /\ [][ExpandBraces]_vars

\* ---------------------------------------------------- what the claims speak of
Dirs == {n \in NodeIds(layout) : is_dir(layout, n)}

\* The nodes of the tree below and including n.
RECURSIVE Subtree(_)
Subtree(n) == {n} \cup UNION {Subtree(children[n][i]) : i \in 1 .. Len(children[n])}

TreeNodes == Subtree(root_node)

\* The number of FILE nodes of the tree below n.
RECURSIVE CountFiles(_)
CountFiles(n) ==
    IF ~is_dir(layout, n) THEN 1
    ELSE LET RECURSIVE Over(_)
             Over(i) == IF i = 0 THEN 0 ELSE CountFiles(children[n][i]) + Over(i - 1)
         IN  Over(Len(children[n]))

\* The directory of the filesystem that holds entry n, and n's depth below the root.
FsParent(n) == CHOOSE d \in NodeIds(layout) :
                   \E i \in 1 .. Len(scandir(layout, d)) : scandir(layout, d)[i] = n

RECURSIVE Depth(_)
Depth(n) == IF n = root_node THEN 0 ELSE 1 + Depth(FsParent(n))

RootIsValid == rootExists /\ ~rootStatRaises /\ rootIsDir

ActiveWorkers == 1 .. numWorkers

SomeAnswerTrue == \E i \in 1 .. Len(answers) : answers[i]

NonIncreasing(s, f) == \A i \in 1 .. Len(s) - 1 : f[s[i]] >= f[s[i + 1]]

\* ------------------------------------------------------------------- claims

\* C1: after a successful scan every DIRECTORY node of the returned tree has
\* size_bytes and disk_usage equal to the sums over its children, its children
\* are ordered by disk_usage non-increasing, and every FILE node carries the
\* sizes stat reported.
C1_FinalizedTree ==
    result = "ok" =>
        \A n \in TreeNodes :
            IF is_dir(layout, n)
            THEN /\ size_bytes[n] = SumOver(children[n], size_bytes)
                 /\ disk_usage[n] = SumOver(children[n], disk_usage)
                 /\ NonIncreasing(children[n], disk_usage)
            ELSE /\ size_bytes[n] = StatSize(layout, n)
                 /\ disk_usage[n] = StatDiskUsage(layout, n)

\* C1 witness: the whole nested tree was scanned by two workers, the sums
\* reached the root and the children of the root and of directory 2 were reordered.
C1_Witness ==
    /\ result = "ok"
    /\ numWorkers = 2
    /\ children[0] = << 2, 4, 1 >>
    /\ children[2] = << 6, 5 >>
    /\ size_bytes[0] = 10
    /\ disk_usage[0] = 10

\* C2 (as claimed): after a successful scan ScanStats.files equals the number
\* of FILE nodes of the returned tree, whatever the _scan_dir calls did.
C2_FilesMatchTree ==
    result = "ok" => stats.files = CountFiles(root_node)

\* C3: once cancel_check has answered true the scan never returns Ok, the
\* tree is not finalized (directory sizes stay 0), the scan returns
\* Err(CANCELLED), and the cancelled flag, once set, is never cleared.
C3_CancelIsFinal ==
    /\ [](SomeAnswerTrue =>
             /\ result \in {"none", "cancelled"}
             /\ pcMain = "done" => result = "cancelled"
             /\ \A d \in Dirs : size_bytes[d] = 0 /\ disk_usage[d] = 0)
    /\ [][cancelled => cancelled']_vars

\* C3 witness: a scan whose second cancel_check call answered true has returned.
C3_Witness ==
    /\ pcMain = "done"
    /\ result = "cancelled"
    /\ Len(answers) >= 2
    /\ ~answers[1]
    /\ answers[2]

\* The cancel_check of test_cancellation_respected answers `calls > 2`.
CancelAfterCalls == 2

AnswersAsInTest == \A i \in 1 .. Len(answers) : answers[i] = (i > CancelAfterCalls)

\* C4 (as claimed): scanning a directory of FlatFiles files and no
\* subdirectory with a cancel_check that answers false twice and true from its
\* third call on polls the callback at least three times and returns
\* Err(CANCELLED).
C4_ThirdCallCancels ==
    (/\ layout = "flat"
     /\ pcMain = "done"
     /\ RootIsValid
     /\ hasCancel
     /\ raised = {}
     /\ AnswersAsInTest)
    => (result = "cancelled" /\ Len(answers) > CancelAfterCalls)

\* C5: under fair scheduling the scan returns, and when workers were started
\* the outstanding count is zero, shutdown was called and every worker has
\* left get() with the sentinel and exited, cancelled or not.
C5_ScanTerminates ==
    <>(/\ pcMain = "done"
       /\ result # "none"
       /\ RootIsValid =>
             /\ outstanding = 0
             /\ shutdown
             /\ \A w \in ActiveWorkers : pc[w] = "exited")

\* C5 witness: a cancelled scan with two workers in which both workers exited
\* after one of them had been blocked in get().
C5_Witness ==
    /\ pcMain = "done"
    /\ result = "cancelled"
    /\ numWorkers = 2
    /\ \A w \in ActiveWorkers : pc[w] = "exited"
    /\ scanned[0] = 1

\* C6 (as claimed): when _scan_dir raises for a non-root directory exactly one
\* access error is counted for the task, the worker stays alive, a scan that
\* is not cancelled returns Ok with access_errors >= 1, and nothing of the
\* failing directory's subtree is in the tree.
C6_RaiseLeavesNoSubtree ==
    \A n \in raised \ {root_node} :
        /\ \A w \in Workers :
              (pc[w] = "flush" /\ Task(w).node = n)
                  => local[w] = [files |-> 0, dirs |-> 0, errors |-> 1]
        /\ (pcMain = "done" /\ ~cancelled) => result = "ok"
        /\ result = "ok" => (stats.access_errors >= 1 /\ children[n] = << >>)

\* C7: root validation precedes the first put and the start of the workers,
\* and maps a missing root to NOT_FOUND, a root whose stat raises to
\* ROOT_STAT_FAILED and a root that is no directory to NOT_DIRECTORY, in this
\* order; only a valid root is enqueued, at depth 0.
C7_RootValidation ==
    /\ pcMain # "resolve_root" =>
          /\ ~rootExists => result = "not_found"
          /\ (rootExists /\ rootStatRaises) => result = "root_stat_failed"
          /\ (rootExists /\ ~rootStatRaises /\ ~rootIsDir) => result = "not_directory"
    /\ (\/ deque # << >>
        \/ outstanding # 0
        \/ \E n \in NodeIds(layout) : enq[n] > 0
        \/ \E w \in Workers : pc[w] # "unstarted")
          => (RootIsValid /\ pcMain # "resolve_root")
    /\ pcMain = "start_threads" => deque = << [node |-> root_node, depth |-> 0] >>

\* C7 witness: a root that exists, whose stat raises (and which would not be a
\* directory) was answered with ROOT_STAT_FAILED.
C7_Witness ==
    /\ pcMain = "done"
    /\ rootExists
    /\ rootStatRaises
    /\ ~rootIsDir
    /\ result = "root_stat_failed"

\* C8: with max_depth = m a directory is read only at a depth <= m; a
\* directory at depth m + 1 is never enqueued and stays in the tree with no
\* children; in a successful scan a directory handed back by a _scan_dir
\* that returned is enqueued (and then read) iff its depth is <= m, and every
\* such directory is with max_depth = None; tasks carry their node's depth.
C8_DepthGate ==
    /\ \A n \in Dirs :
          /\ scanned[n] > 0 => (max_depth = << >> \/ Depth(n) <= max_depth[1])
          /\ (max_depth # << >> /\ Depth(n) = max_depth[1] + 1)
                => (enq[n] = 0 /\ children[n] = << >>)
    /\ \A i \in 1 .. Len(deque) : deque[i].depth = Depth(deque[i].node)
    /\ \A w \in Workers : task[w] # << >> => Task(w).depth = Depth(Task(w).node)
    /\ result = "ok" =>
          \A n \in (TreeNodes \cap Dirs) \ {root_node} :
              FsParent(n) \notin raised =>
                  /\ enq[n] > 0 <=> (max_depth = << >> \/ Depth(n) <= max_depth[1])
                  /\ enq[n] > 0 => scanned[n] > 0

\* C8 witness: max_depth = 1; directory 2 (depth 1) was read, directory 6
\* (depth 2) is in the tree, was never read and has no children.
C8_Witness ==
    /\ result = "ok"
    /\ max_depth = << 1 >>
    /\ scanned[2] = 1
    /\ 6 \in TreeNodes
    /\ scanned[6] = 0
    /\ children[6] = << >>

\* C9: every node is enqueued at most once and handed to one worker: no two
\* workers hold (run _scan_dir on) the same node, no held node is still in
\* the deque, and _scan_dir is called at most once per node.
C9_OneWorkerPerNode ==
    /\ \A n \in NodeIds(layout) : enq[n] <= 1 /\ scanned[n] <= 1
    /\ \A i, j \in 1 .. Len(deque) : i # j => deque[i].node # deque[j].node
    /\ \A w \in Workers :
          task[w] # << >> =>
              /\ \A v \in Workers \ {w} :
                    task[v] # << >> => Task(v).node # Task(w).node
              /\ \A i \in 1 .. Len(deque) : deque[i].node # Task(w).node

\* C9 witness: two workers are in _scan_dir at once, on the sibling
\* directories 2 and 4.
C9_Witness ==
    /\ pc[1] = "scan_dir"
    /\ pc[2] = "scan_dir"
    /\ {Task(1).node, Task(2).node} = {2, 4}

\* C10: shutdown() is called only when the outstanding count is zero: while
\* the shutdown flag is set, and whenever a worker has received the sentinel
\* or exited, the deque is empty, no worker holds a task and nothing is
\* outstanding.
C10_ShutdownAfterDrain ==
    (\/ shutdown
     \/ pcMain \in {"thread_join", "return", "done"} /\ RootIsValid
     \/ \E w \in Workers : pc[w] \in {"exit", "exited"})
    => /\ outstanding = 0
       /\ deque = << >>
       /\ \A w \in Workers : task[w] = << >>
       /\ done

\* C10 witness: a worker exited after another worker had processed the
\* deepest directory while the first was blocked in get().
C10_Witness ==
    /\ shutdown
    /\ numWorkers = 2
    /\ pc[1] = "exited"
    /\ pc[2] = "waiting" \/ pc[2] = "get"
    /\ scanned[6] = 1

\* The workers that hold a task: get() returned it, task_done() was not yet called.
Holders == {w \in Workers : task[w] # << >>}

\* The main thread is past q.join().
JoinReturned == RootIsValid /\ pcMain \in {"shutdown", "thread_join", "return", "done"}

\* C11: _outstanding is always the number of tasks in the deque plus the
\* number of tasks held by workers, and never negative; the completion event
\* is set only by a task_done() step that brings _outstanding from one to
\* zero; join() has returned only when the event is set; once the event is
\* set no task is enqueued.
C11_OutstandingAccounting ==
    /\ [](/\ outstanding = Len(deque) + Cardinality(Holders)
          /\ outstanding >= 0
          /\ JoinReturned => done)
    /\ [][/\ (~done /\ done') =>
                (/\ outstanding = 1
                 /\ outstanding' = 0
                 /\ \E w \in Workers : pc[w] = "task_done" /\ pc'[w] = "get")
          /\ done => (done' /\ enq' = enq /\ deque' = deque)
         ]_vars

\* C11 witness: the event is set after four directories went through the
\* queue (the root enqueued 2 and 4, directory 2 enqueued 6), the main thread
\* is past join().
C11_Witness ==
    /\ done
    /\ outstanding = 0
    /\ pcMain = "shutdown"
    /\ enq[0] = 1 /\ enq[2] = 1 /\ enq[4] = 1 /\ enq[6] = 1
    /\ scanned[6] = 1

\* C12: shutdown() wakes every worker blocked in get(), no worker blocks in
\* get() while the shutdown flag is set, and every get() that returns while
\* the flag is set returns the sentinel and not a task.
C12_ShutdownSentinel ==
    /\ [](shutdown => Waiting = {})
    /\ [][/\ (~shutdown /\ shutdown') =>
                (\A w \in Workers : pc[w] = "waiting" => pc'[w] = "get")
          /\ \A w \in Workers :
                (shutdown /\ pc[w] = "get" /\ pc'[w] # "get") =>
                    (pc'[w] = "exit" /\ task'[w] = << >>)
         ]_vars

\* C12 witness: two workers were started, the flag is set, one worker has
\* received the sentinel and the other is in the loop of get().
C12_Witness ==
    /\ shutdown
    /\ numWorkers = 2
    /\ pc[1] = "exit"
    /\ pc[2] = "get"
    /\ scanned[0] = 1

\* ---------------------------------------------- what the matching claims speak of
\* The call of match_all that was made, and the rules it returned.
Called == matchres # << >>
CallPath == matchres[1].path
CallIsDir == matchres[1].is_dir
Hits == matchres[1].hits

\* All rules of the configuration: the patterns, then the additional path rules.
AdditionalRules ==
    LET pairs == additional_path_rules(additional_paths)
    IN  [i \in 1 .. Len(pairs) |-> pairs[i].rule]

AllRules == patterns \o AdditionalRules

IsAdditional(rule) == \E i \in 1 .. Len(AdditionalRules) : AdditionalRules[i] = rule

Occurs(key, text) ==
    \E d \in 1 .. Len(text) : \E e \in d .. Len(text) : SubSeq(text, d, e) = key

\* The tiers (1 EXACT, 2 automaton, 3 STARTSWITH, 4 GLOB, 5 additional) in
\* which a rule matches a path, whatever the kind of the node: stated from
\* the runtime predicate of each matcher kind.
TiersMatching(rule, path) ==
    LET lpath == lower(path)
        lbase == lower(basename_of(path))
        pats == expand_braces(rule.pattern)
        ms == {classify(pats[i]) : i \in 1 .. Len(pats)}
    IN  IF IsAdditional(rule)
        THEN {t \in {5} : path = rule.pattern \/ startswith(path, rule.pattern \o << "/" >>)}
        ELSE {t \in 1 .. 4 :
                \E m \in ms :
                   \/ t = 1 /\ m.kind = "EXACT" /\ lbase = m.value
                   \/ t = 2 /\ m.kind = "CONTAINS"
                            /\ (Occurs(m.value, lpath) \/ endswith(lpath, m.alt))
                   \/ t = 2 /\ m.kind = "ENDSWITH" /\ endswith(lpath, m.value)
                   \/ t = 3 /\ m.kind = "STARTSWITH" /\ startswith(lbase, m.value)
                   \/ t = 4 /\ m.kind = "GLOB" /\ match_pattern_slow(m.value, lpath, lbase)}

\* The rule applies to nodes of the kind.
AppliesTo(rule, isdir) ==
    IF isdir THEN rule.apply_to \in {ApplyTo_DIR, ApplyTo_BOTH}
    ELSE rule.apply_to \in {ApplyTo_FILE, ApplyTo_BOTH}

\* The rules of the configuration that match the path for a node of the kind.
Matching(path, isdir) ==
    {r \in {AllRules[i] : i \in 1 .. Len(AllRules)} :
        AppliesTo(r, isdir) /\ TiersMatching(r, path) # {}}

FirstTier(rule, path) ==
    CHOOSE t \in TiersMatching(rule, path) : \A u \in TiersMatching(rule, path) : t <= u

HitSet == {Hits[i] : i \in 1 .. Len(Hits)}

\* C13: match_all returns at most one rule per category, so never more rules
\* than there are categories, however many rules of a category match.
C13_OnePerCategory ==
    Called =>
        /\ \A i, j \in 1 .. Len(Hits) : i # j => Hits[i].category # Hits[j].category
        /\ Len(Hits) <= Cardinality(Categories)

\* C13 witness: two rules of category cache match the file a.log, one in
\* the EXACT tier and one in the STARTSWITH tier, and one rule is returned.
C13_Witness ==
    /\ Called
    /\ ~CallIsDir
    /\ Cardinality({r \in Matching(CallPath, FALSE) : r.category = "cache"}) = 2
    /\ {FirstTier(r, CallPath) : r \in Matching(CallPath, FALSE)} = {1, 3}
    /\ Len(Hits) = 1

\* C14: the tiers are evaluated in the order EXACT, automaton, STARTSWITH,
\* GLOB, additional: every returned rule matches; for every category with a
\* matching rule exactly one rule of the category is returned, it matches in
\* the earliest tier in which a rule of the category matches, and outside
\* the automaton tier it is the first such rule of the configuration.
C14_TierOrder ==
    Called =>
        /\ HitSet \subseteq Matching(CallPath, CallIsDir)
        /\ \A c \in Categories :
              LET ofC == {r \in Matching(CallPath, CallIsDir) : r.category = c}
                  tiers == UNION {TiersMatching(r, CallPath) : r \in ofC}
                  first == CHOOSE t \in tiers : \A u \in tiers : t <= u
                  inFirst == {r \in ofC : first \in TiersMatching(r, CallPath)}
                  Index(r) == CHOOSE i \in 1 .. Len(AllRules) : AllRules[i] = r
              IN  ofC # {} =>
                      \E h \in HitSet :
                          /\ h.category = c
                          /\ h \in inFirst
                          /\ first # 2 => \A r \in inFirst : Index(h) <= Index(r)

\* C14 witness: an automaton rule and an additional path rule of category
\* temp both match a file, and the automaton rule is the one returned.
C14_Witness ==
    /\ Called
    /\ ~CallIsDir
    /\ \E r \in Matching(CallPath, FALSE) : r.category = "temp" /\ FirstTier(r, CallPath) = 2
    /\ \E r \in Matching(CallPath, FALSE) : r.category = "temp" /\ FirstTier(r, CallPath) = 5
    /\ \E h \in HitSet : h.category = "temp" /\ ~IsAdditional(h)

\* The set of rules match_all returns for a path of the configuration's tree.
MatchedRules(path, isdir) ==
    LET hits == match_node(ruleset_of(patterns, additional_paths),
                           path, basename_of(path), isdir)
    IN  {hits[i] : i \in 1 .. Len(hits)}

\* C15: matching is case-insensitive in every tier, the additional base
\* paths included: the rules matched for a path are the rules matched for
\* each of its case variants, the node kind being equal.
C15_CaseInsensitive ==
    Called => \A v \in CaseVariants(CallPath) : MatchedRules(v, CallIsDir) = HitSet

Ruleset == ruleset_of(patterns, additional_paths)

\* The rules match_all returns for a node of the tree.
NodeMatches(rs, n) ==
    match_node(rs, node_path(layout, n), node_name(n), is_dir(layout, n))

Descendants(n) == Subtree(n) \ {n}

\* A rule with stop_recursion, or a rule of category TEMP or CACHE, or any
\* rule at all, is among the rules matched for the node.
MatchedStop(rs, n) ==
    LET m == NodeMatches(rs, n) IN \E i \in 1 .. Len(m) : m[i].stop_recursion

MatchedTempOrCache(rs, n) ==
    LET m == NodeMatches(rs, n) IN \E i \in 1 .. Len(m) : m[i].category \in {"temp", "cache"}

MatchedIn(rs, n, c) ==
    LET m == NodeMatches(rs, n) IN \E i \in 1 .. Len(m) : m[i].category = c

\* The paths of the insights of the returned bundle, and of a category.
InsightPaths == {insights[i].path : i \in 1 .. Len(insights)}

InsightsOf(c) == SelectSeq(insights, LAMBDA x : x.category = c)

Returned == ipc \in {"done", "filtered"}

\* A node leaves no trace: it was not matched, no insight was recorded for
\* it, and it is in no aggregate and not in the bundle.
NoTrace(d) ==
    /\ d \notin visited
    /\ \A x \in recorded : x.path # node_path(layout, d)
    /\ \A c \in Categories : node_path(layout, d) \notin by_category[c].paths
    /\ node_path(layout, d) \notin InsightPaths

C18_TempCachePruning ==
    /\ LET rs == Ruleset
       IN  \A n \in TreeNodes :
               (children[n] # << >> /\ MatchedTempOrCache(rs, n)) =>
                   \A d \in Descendants(n) : NoTrace(d)
    /\ \A c \in Categories :
          LET ofC == {x \in recorded : x.category = c}
          IN  /\ by_category[c].count = Cardinality(ofC)
              /\ by_category[c].paths = {x.path : x \in ofC}
              /\ \A x \in ofC : by_category[c].disk_usage >= x.disk_usage

\* C18 witness: the bundle was returned with a directory matched TEMP or
\* CACHE in it; a file two levels below it, which a rule of another category
\* matches, is in no insight and in no aggregate.
C18_Witness ==
    /\ Returned
    /\ \E n \in visited :
          /\ MatchedTempOrCache(Ruleset, n)
          /\ node_path(layout, n) \in InsightPaths
          /\ \E k \in Descendants(n), d \in Descendants(n) :
                d \in Descendants(k) /\ MatchedIn(Ruleset, d, "build_artifact")

\* The matches of a category: the insights generate_insights recorded for it.
MatchesOf(c) == {x \in recorded : x.category = c}

RetainedOf(c) == {InsightsOf(c)[i] : i \in 1 .. Len(InsightsOf(c))}

\* C19: no category has more than max_insights_per_category insights in
\* the bundle (nor, then, more distinct paths), however many nodes match; no
\* heap ever holds more entries than that.
C19_AtMostK ==
    /\ \A c \in Categories : Len(heaps[c]) <= max_insights
    /\ Returned =>
          \A c \in Categories :
              /\ Len(InsightsOf(c)) <= max_insights
              /\ Cardinality({x.path : x \in RetainedOf(c)}) <= max_insights

\* C19 witness: more nodes matched category temp than max_insights, and the
\* bundle holds exactly max_insights insights of the category.
C19_Witness ==
    /\ Returned
    /\ Cardinality(MatchesOf("temp")) > max_insights
    /\ Len(InsightsOf("temp")) = max_insights

\* C20: the insights of a category in the bundle are K of its largest
\* matches, K = max_insights_per_category, and all of them when at most K
\* matched: they are matches, there are min(K, number of matches) of them,
\* and each has a disk_usage at least that of every match not retained.
C20_TopK ==
    Returned =>
        \A c \in Categories :
            /\ RetainedOf(c) \subseteq MatchesOf(c)
            /\ Cardinality(RetainedOf(c)) = Len(InsightsOf(c))
            /\ Len(InsightsOf(c)) =
                  IF Cardinality(MatchesOf(c)) < max_insights
                  THEN Cardinality(MatchesOf(c)) ELSE max_insights
            /\ \A x \in RetainedOf(c), y \in MatchesOf(c) \ RetainedOf(c) :
                  x.disk_usage >= y.disk_usage

\* C20 witness: more than three files matched category temp with K = 3; a
\* retained insight of a file is strictly larger than a match that is not
\* retained, and the retained insights differ in size.
C20_Witness ==
    /\ Returned
    /\ max_insights = 3
    /\ Cardinality(MatchesOf("temp")) > 3
    /\ \E x \in RetainedOf("temp"), y \in MatchesOf("temp") \ RetainedOf("temp") :
          /\ x.disk_usage > y.disk_usage
          /\ ~(\E n \in visited : node_path(layout, n) = x.path /\ is_dir(layout, n))
    /\ \E x, z \in RetainedOf("temp") : x.disk_usage > z.disk_usage

\* The sum of a field over a set of insights.
RECURSIVE SumSize(_)
SumSize(xs) ==
    IF xs = {} THEN 0
    ELSE LET x == CHOOSE y \in xs : TRUE IN x.size_bytes + SumSize(xs \ {x})

RECURSIVE SumUsage(_)
SumUsage(xs) ==
    IF xs = {} THEN 0
    ELSE LET x == CHOOSE y \in xs : TRUE IN x.disk_usage + SumUsage(xs \ {x})

\* C21: the aggregates are not bounded by the heap: for every category the
\* count is the number of matches recorded so far, size_bytes and disk_usage
\* are the sums over those matches, and in the returned bundle the count is
\* at least the number of insights of the category.
C21_AggregatesUnbounded ==
    \A c \in Categories :
        /\ by_category[c].count = Cardinality(MatchesOf(c))
        /\ by_category[c].size_bytes = SumSize(MatchesOf(c))
        /\ by_category[c].disk_usage = SumUsage(MatchesOf(c))
        /\ Returned => by_category[c].count >= Len(InsightsOf(c))

\* C21 witness: the bundle was returned and category temp counts more
\* matches than the heap retained, with K = 1 and three matches or more.
C21_Witness ==
    /\ Returned
    /\ max_insights = 1
    /\ by_category["temp"].count >= 3
    /\ Len(InsightsOf("temp")) = 1
    /\ by_category["temp"].disk_usage > InsightsOf("temp")[1].disk_usage

\* The position in the bundle of the k-th insight whose category is chosen.
KthChosen(categories, k) ==
    CHOOSE i \in 1 .. Len(insights) :
        /\ insights[i].category \in categories
        /\ Cardinality({j \in 1 .. i - 1 : insights[j].category \in categories}) = k - 1

\* C22: the insights of the returned bundle are ordered by disk_usage,
\* largest first, across the categories; filter_insights returns the
\* insights of the chosen categories, each once, in the order of the bundle.
C22_SortedAndFiltered ==
    /\ Returned =>
          \A i \in 1 .. Len(insights) - 1 :
              insights[i].disk_usage >= insights[i + 1].disk_usage
    /\ filtered # << >> =>
          LET cats == filtered[1].categories
              res == filtered[1].result
          IN  /\ Len(res) = Cardinality({j \in 1 .. Len(insights) :
                                            insights[j].category \in cats})
              /\ \A k \in 1 .. Len(res) : res[k] = insights[KthChosen(cats, k)]
              /\ \A k \in 1 .. Len(res) - 1 : res[k].disk_usage >= res[k + 1].disk_usage

\* C22 witness: an insight of category temp stands in the bundle after a
\* larger one of another category, where concatenation would not put it, and
\* a filter that leaves temp out dropped it from between two it kept.
C22_Witness ==
    /\ filtered # << >>
    /\ Len(filtered[1].result) >= 2
    /\ \E i, j, k \in 1 .. Len(insights) :
          /\ i < j /\ j < k
          /\ insights[i].category \in filtered[1].categories
          /\ insights[j].category \notin filtered[1].categories
          /\ insights[k].category \in filtered[1].categories
          /\ insights[i].disk_usage > insights[k].disk_usage
          /\ insights[j].category = "temp"
          /\ insights[i].category # "temp"

\* The positions of the bundle that hold an insight of a path and a category.
Occurrences(path, c) ==
    {i \in 1 .. Len(insights) : insights[i].path = path /\ insights[i].category = c}

\* The pairs of a visited node and a category in which a rule matched it.
MatchedPairs(rs) ==
    UNION {LET m == NodeMatches(rs, n)
           IN  {<< n, m[i].category >> : i \in 1 .. Len(m)} : n \in visited}

LastCall == fcall[1]

IterReturned == fcall # << >> /\ LastCall.op = "iter" /\ ~LastCall.error

\* The keys that were added and the value each has: that of its last add_word.
AddedKeys == {ac_words[i][1] : i \in 1 .. Len(ac_words)}

ValueOf(key) ==
    LET last == CHOOSE i \in 1 .. Len(ac_words) :
                    /\ ac_words[i][1] = key
                    /\ \A j \in i + 1 .. Len(ac_words) : ac_words[j][1] # key
    IN  ac_words[last][2]

\* The key occurs in the text and its last character is at zero-based index e.
EndsAt(key, text, e) ==
    /\ key # << >>
    /\ e + 1 >= Len(key)
    /\ e + 1 <= Len(text)
    /\ SubSeq(text, e + 2 - Len(key), e + 1) = key

\* The pairs iter is to return for a text.
Occurring(text) ==
    UNION {{<< e, ValueOf(k) >> : e \in {d \in 0 .. Len(text) - 1 : EndsAt(k, text, d)}}
              : k \in AddedKeys}

\* C24: the automaton has two phases: add_word raises exactly when the
\* automaton was built, iter exactly when it was not, and make_automaton
\* exactly when it was built before; a call that raises changes nothing.
C24_TwoPhases ==
    [][LET c == fcall'[1]
       IN  /\ c.op = "add_word" => (c.error <=> automaton.built)
           /\ c.op = "iter" => (c.error <=> ~automaton.built)
           /\ c.op = "make_automaton" => (c.error <=> automaton.built)
           /\ c.error => (automaton' = automaton /\ ac_words' = ac_words)
           /\ automaton.built => automaton'.built
      ]_vars

\* C24 witness: add_word was called on a built automaton that holds a key,
\* and raised.
C24_Witness ==
    /\ fcall # << >>
    /\ LastCall.op = "add_word"
    /\ LastCall.error
    /\ automaton.built
    /\ ac_words # << >>

\* C25: iter returns exactly the pairs of an end index and a value such
\* that a key with that value occurs in the text ending at that index, one
\* pair for every key and occurrence: keys that end at the same index,
\* overlapping occurrences of a key, and nothing for a key that does not occur.
C25_IterExact ==
    IterReturned =>
        LET res == LastCall.result
        IN  /\ {res[i] : i \in 1 .. Len(res)} = Occurring(LastCall.arg)
            /\ Len(res) = Cardinality(Occurring(LastCall.arg))

\* C25 witness: iter("aba") on the keys "a", "ba" and "bb": "a" occurs
\* twice, "ba" ends where the second "a" ends, and "bb" does not occur.
C25_Witness ==
    /\ IterReturned
    /\ LastCall.arg = << "a", "b", "a" >>
    /\ AddedKeys = {<< "a" >>, << "b", "a" >>, << "b", "b" >>}
    /\ Len(LastCall.result) = 3

\* C26 as stated: iter(K) of every key K that was added yields the pair of
\* |K| - 1 and the value of K.
C26_RoundTripEveryKey ==
    (IterReturned /\ LastCall.arg \in AddedKeys) =>
        \E i \in 1 .. Len(LastCall.result) :
            LastCall.result[i] = << Len(LastCall.arg) - 1, ValueOf(LastCall.arg) >>

\* C26, amended: iter(K) of every key K that was added and is not the empty
\* string yields the pair of |K| - 1 and the value of K, the value of the
\* last add_word(K, .); the empty key yields nothing.
C26_RoundTrip ==
    (IterReturned /\ LastCall.arg \in AddedKeys) =>
        IF LastCall.arg = << >> THEN LastCall.result = << >>
        ELSE \E i \in 1 .. Len(LastCall.result) :
                LastCall.result[i] = << Len(LastCall.arg) - 1, ValueOf(LastCall.arg) >>

\* C26 witness: the key "ab" was added twice, and iter("ab") returned the
\* pair of 1 and the second value.
C26_Witness ==
    /\ IterReturned
    /\ LastCall.arg = << "a", "b" >>
    /\ ac_words = << << << "a", "b" >>, 1 >>, << << "a", "b" >>, 2 >> >>
    /\ LastCall.result = << << 1, 2 >> >>

\* ------------------------------------------- what the brace claim speaks of
\* The nesting depth after each character of a pattern.
RECURSIVE DepthAfter(_, _)
DepthAfter(p, i) ==
    IF i = 0 THEN 0
    ELSE DepthAfter(p, i - 1)
         + (IF p[i] = "{" THEN 1 ELSE IF p[i] = "}" THEN -1 ELSE 0)

HasBrace(p) == \E i \in 1 .. Len(p) : p[i] \in {"{", "}"}

\* Every brace of the pattern has its partner.
Balanced(p) ==
    /\ \A i \in 1 .. Len(p) : DepthAfter(p, i) >= 0
    /\ DepthAfter(p, Len(p)) = 0

\* The alternatives of a group: its text between the braces, cut at the
\* commas that are not inside a nested group.
RECURSIVE Alternatives(_, _, _)
Alternatives(text, from, i) ==
    IF i > Len(text) THEN << SubSeq(text, from, Len(text)) >>
    ELSE IF text[i] = "," /\ DepthAfter(text, i) = 0
         THEN << SubSeq(text, from, i - 1) >> \o Alternatives(text, i + 1, i + 1)
         ELSE Alternatives(text, from, i + 1)

\* The patterns obtained from a balanced pattern by choosing one
\* alternative of every group, the first group first, until no group remains.
RECURSIVE Choices(_)
Choices(p) ==
    IF ~HasBrace(p) THEN << p >>
    ELSE LET open == CHOOSE i \in 1 .. Len(p) :
                         p[i] = "{" /\ \A j \in 1 .. i - 1 : p[j] # "{"
             close == CHOOSE i \in open + 1 .. Len(p) :
                          /\ DepthAfter(p, i) = 0
                          /\ \A j \in open .. i - 1 : DepthAfter(p, j) > 0
             alts == Alternatives(SubSeq(p, open + 1, close - 1), 1, 1)
         IN  Flatten([k \in 1 .. Len(alts) |->
                         Choices(SubSeq(p, 1, open - 1) \o alts[k]
                                 \o SubSeq(p, close + 1, Len(p)))])

\* C27: _expand_braces returns the pattern itself, alone, when the pattern
\* holds no brace or holds a brace without its partner, and otherwise the
\* patterns obtained by choosing one alternative of every group, multiple
\* and nested groups included.
C27_BraceExpansion ==
    (fcall # << >> /\ fcall[1].op = "expand_braces") =>
        LET p == fcall[1].arg
        IN  fcall[1].result = IF Balanced(p) THEN Choices(p) ELSE << p >>

\* ------------------------------------------ literal patterns and the automaton
\* The sequences over an alphabet of a length up to n.
RECURSIVE StringsOver(_, _)
StringsOver(alphabet, n) ==
    IF n = 0 THEN {<< >>}
    ELSE StringsOver(alphabet, n - 1)
         \cup {Append(t, c) : t \in StringsOver(alphabet, n - 1), c \in alphabet}

\* The literals of the patterns: lower and upper case letters and the separator.
Literals == StringsOver({"a", "B", "/"}, MaxLitLen)

\* The patterns **/literal/** and **/*literal of a config.
SegmentPattern(seg) == << "*", "*", "/" >> \o seg \o << "/", "*", "*" >>
SuffixPattern(lit) == << "*", "*", "/", "*" >> \o lit

LiteralPatterns ==
    {SegmentPattern(l) : l \in Literals} \cup {SuffixPattern(l) : l \in Literals}

\* ScanNode.path values: absolute, normalized paths (no empty component, no
\* trailing separator).
NodePaths ==
    {p \in StringsOver({"/", "a", "b"}, MaxPathLen) :
        /\ Len(p) >= 2
        /\ p[1] = "/"
        /\ p[Len(p)] # "/"
        /\ \A i \in 1 .. Len(p) - 1 : ~(p[i] = "/" /\ p[i + 1] = "/")}

\* A config of one rule, whose pattern is a literal pattern, was compiled.
InitLiteral ==
    /\ ScanReturned(scanned_tree([n \in FileNodes |-> 1]))
    /\ ACIdle
    /\ \E pattern \in LiteralPatterns :
          patterns = << [name |-> "literal", pattern |-> pattern, category |-> "temp",
                         apply_to |-> ApplyTo_BOTH, stop_recursion |-> FALSE] >>
    /\ additional_paths = << >>
    /\ max_insights = 1
    /\ ipc = "literal"
    /\ matchres = << >>
    /\ istack = << >>
    /\ heaps = EmptyState.heaps
    /\ hseen = EmptyState.seen
    /\ by_category = EmptyState.by_category
    /\ insights = << >>
    /\ visited = {}
    /\ recorded = {}
    /\ filtered = << >>

\* generate_insights, line 124: match_all for a node of some path, once.
MatchLiteral ==
    /\ ipc = "literal"
    /\ \E path \in NodePaths, isdir \in BOOLEAN :
          matchres' = << [path |-> path, is_dir |-> isdir,
                          hits |-> match_node(ruleset_of(patterns, additional_paths),
                                              path, basename_of(path), isdir)] >>
    /\ ipc' = "matched"
    /\ UNCHANGED << scanVars, acVars, configVars, istack, heaps, hseen, by_category,
                    insights, visited, recorded, filtered >>

LiteralSpec == InitLiteral /\ [][MatchLiteral]_vars

\* ------------------------------------------------------- _heap_push alone
\* The insights _heap_push is called with: three paths, every disk usage, built
\* as the tests' _insight builds them (size_bytes = disk_usage, one category).
HeapInsights ==
    {[path |-> path, size_bytes |-> usage, category |-> "temp", summary |-> "test",
      disk_usage |-> usage] :
        path \in {<< "/", "a" >>, << "/", "b" >>, << "/", "c" >>}, usage \in 1 .. MaxUsage}

\* An empty heap, an empty seen dict and a max_size.
InitHeap ==
    /\ ScanReturned(scanned_tree([n \in FileNodes |-> 1]))
    /\ ACIdle
    /\ patterns = << >>
    /\ additional_paths = << >>
    /\ max_insights \in 1 .. MaxInsights
    /\ ipc = "heap"
    /\ matchres = << >>
    /\ istack = << >>
    /\ heaps = EmptyState.heaps
    /\ hseen = EmptyState.seen
    /\ by_category = EmptyState.by_category
    /\ insights = << >>
    /\ visited = {}
    /\ recorded = {}
    /\ filtered = << >>

\* _heap_push(heap, seen, insight, max_size), for any insight.
HeapPush ==
    /\ ipc = "heap"
    /\ \E insight \in HeapInsights :
          LET hp == heap_push(heaps["temp"], hseen["temp"], insight, max_insights)
          IN  /\ heaps' = [heaps EXCEPT !["temp"] = hp.heap]
              /\ hseen' = [hseen EXCEPT !["temp"] = hp.seen]
              /\ recorded' = recorded \cup {insight}
              /\ fcall' = << [op |-> "_heap_push", arg |-> insight, result |-> << >>,
                              error |-> FALSE] >>
    /\ UNCHANGED << scanVars, configVars, ipc, matchres, istack, by_category,
                    insights, visited, filtered, automaton, ac_words >>

HeapSpec == InitHeap /\ [][HeapPush]_vars

\* ------------------------------------------------------------------ progress
\* C28: when a progress_callback is supplied, a successful scan of a root
\* directory that holds at least one entry (two files, say) has called the
\* callback at least once when scan returns.  It is stated for the scans in
\* which no directory failed to be read, so that every entry was counted.
C28_ProgressInvoked ==
    (/\ pcMain = "done"
     /\ result = "ok"
     /\ hasProgress
     /\ raised = {}
     /\ Len(scandir(layout, root_node)) >= 1)
        => progress_calls # << >>

\* ------------------------------------------------------------- LEAF_CHILDREN
\* The FILE nodes of the scanned filesystem; the children of every one of them
\* is the one list LEAF_CHILDREN.
LeafNodes == {n \in NodeIds(layout) : ~is_dir(layout, n)}

\* C29: the children list of the FILE nodes (LEAF_CHILDREN) is empty in every
\* state of a scan, whatever the interleaving of the workers, and after
\* finalize_sizes: nothing is ever appended to a FILE node.
C29_LeafChildrenEmpty == \A n \in LeafNodes : children[n] = << >>

\* C29, witness: a scan by two workers returned Ok, every directory was read
\* and sorted, and FILE nodes hang in the tree next to other nodes.
C29_Witness ==
    /\ pcMain = "done"
    /\ result = "ok"
    /\ numWorkers = 2
    /\ raised = {}
    /\ \E d \in NodeIds(layout) :
          /\ Len(children[d]) >= 2
          /\ \E i \in 1 .. Len(children[d]) : children[d][i] \in LeafNodes
    /\ \E w1, w2 \in Workers : w1 # w2 /\ pc[w1] = "exited" /\ pc[w2] = "exited"

\* ------------------------------------------------- task_done after every get
\* The positions of run_worker between a get() that returned a task and the
\* task_done() for it (lines 234-264).
LoopBody ==
    {"is_cancelled", "cancel_check", "cancelled_set", "scan_dir", "flush", "task_done"}

\* C30: every task returned by get() is followed by one task_done() of the same
\* worker before its next get(), on every path through the loop, a callback
\* that raises included: a worker that holds a task for which task_done() was
\* not called yet is inside the loop body, on its way to task_done(); it is
\* not at get() again and its thread has not ended.
C30_TaskDoneOnEveryPath ==
    \A w \in Workers : task[w] # << >> => pc[w] \in LoopBody

\* ------------------------------------------------------------ batched flush
\* How many entries of directory n stat as `kind`.
EntriesOf(n, kind) ==
    Cardinality({i \in 1 .. Len(scandir(layout, n)) :
                    EntryStat(layout, scandir(layout, n)[i]) = kind})

\* What the processed tasks produced: the counts _scan_dir returned for every
\* directory it read, and one error for every directory it raised on.
Produced(kind) ==
    LET ids == NodeIds(layout)
        count == [n \in ids |->
                     IF scanned[n] = 0 THEN 0
                     ELSE IF n \in raised THEN (IF kind = "bad" THEN scanned[n] ELSE 0)
                     ELSE scanned[n] * EntriesOf(n, kind)]
    IN  SumOver(Range1(0, Cardinality(ids) - 1), count)

\* C31: a worker has flushed its local counters when it calls task_done() (and
\* whenever it is not working on a task), and once join() has returned every
\* worker's local counters are zero and stats.files, stats.directories - 1 and
\* stats.access_errors are the sums of what the processed tasks produced.
C31_BatchedFlush ==
    /\ \A w \in Workers :
          pc[w] \notin {"scan_dir", "flush", "exit"} => local[w] = ZeroCounts
    /\ JoinReturned =>
          /\ \A w \in Workers : local[w] = ZeroCounts
          /\ stats.files = Produced("file")
          /\ stats.directories - 1 = Produced("dir")
          /\ stats.access_errors = Produced("bad")

\* C31, witness: join() returned after two workers read the whole nested tree,
\* one directory of which raised.
C31_Witness ==
    /\ pcMain = "shutdown"
    /\ numWorkers = 2
    /\ \A w \in ActiveWorkers : pc[w] \in {"get", "waiting"}
    /\ raised # {}
    /\ stats.files >= 2
    /\ stats.directories >= 3
    /\ stats.access_errors >= 2

\* ------------------------------------------------- the flag short-circuits
\* C32 (as claimed): once the cancelled flag has been set, cancel_check is not
\* invoked again, for any number of workers and any interleaving.
C32_NoCallAfterFlag == [][cancelled => answers' = answers]_vars

\* C32 (amended): a worker that looks at the cancelled flag once it has been
\* set goes on to task_done() without invoking cancel_check; the callback is
\* invoked only by a worker that read the flag while it was still clear, once
\* for that reading; with one worker it is never invoked after the flag was set.
C32_ShortCircuit ==
    [][/\ \A w \in Workers :
             /\ (cancelled /\ pc[w] = "is_cancelled" /\ pc'[w] # "is_cancelled")
                    => pc'[w] = "task_done"
             /\ (pc[w] # "cancel_check" /\ pc'[w] = "cancel_check")
                    => (~cancelled /\ pc[w] = "is_cancelled")
       /\ answers' # answers =>
             \E w \in Workers : pc[w] = "cancel_check" /\ pc'[w] # "cancel_check"
       /\ (numWorkers = 1 /\ cancelled) => answers' = answers]_vars

\* C32, witness: the one worker got true from its second cancel_check call on
\* directory 2, set the flag, and has now looked at the flag for directory 4
\* and gone to task_done() with no third call.
C32_Witness ==
    /\ numWorkers = 1
    /\ cancelled
    /\ pc[1] = "task_done"
    /\ task[1] # << >>
    /\ task[1][1].node = 4
    /\ Len(answers) = 2

\* ------------------------------------------- a cancelled worker does no work
\* C33: once _is_cancelled has returned True for a worker, that worker never
\* again calls cancel_check or _scan_dir and never enqueues a task: it is
\* setting the flag, acknowledging a task with task_done(), getting the next
\* one, looking at the flag, or leaving; and no step of such a worker (being
\* woken by another thread's notify is not its step) reads a directory,
\* extends the tree or puts a task in the queue.
C33_CancelledWorkerIdle ==
    /\ [](\A w \in observed :
             pc[w] \in {"cancelled_set", "task_done", "get", "waiting",
                        "is_cancelled", "exit", "exited"})
    /\ [][\A w \in observed :
             (pc'[w] # pc[w] /\ ~(pc[w] = "waiting" /\ pc'[w] = "get"))
                => (/\ children' = children
                    /\ scanned' = scanned
                    /\ enq' = enq
                    /\ Len(deque') <= Len(deque))]_vars

\* C33, witness: both workers have observed the cancellation, and one of them
\* has since dequeued a directory that it acknowledges without reading it.
C33_Witness ==
    /\ numWorkers = 2
    /\ observed = {1, 2}
    /\ \E w \in observed :
          /\ pc[w] = "task_done"
          /\ task[w] # << >>
          /\ scanned[task[w][1].node] = 0
          /\ \E v \in observed \ {w} : pc[v] \in {"get", "waiting"}

\* ------------------------------------------- finalize after the workers exit
\* C34: finalize_sizes starts only after every worker thread has exited: when
\* scan has run the finalize pass and returned Ok, no worker thread is alive.
C34_FinalizeAfterExit ==
    (pcMain = "done" /\ result = "ok")
        => \A w \in ActiveWorkers : pc[w] = "exited"

\* ------------------------------------------------- progress every 100 items
\* The entries (files and directories) the one worker of a single-worker scan
\* has scanned so far: what it flushed into the stats (the root, counted at the
\* start, is no entry) and what it still holds in its local counters.
RunningTotal == stats.files + stats.directories - 1 + local[1].files + local[1].dirs

\* C35: a worker invokes the progress callback exactly when the running total
\* of entries it has scanned so far in this scan goes past a multiple of
\* ProgressEvery while it processes a task, and never otherwise.  Stated for
\* the scans of one worker in which no directory failed to be read: every step
\* adds one call when the worker's running total goes past a multiple of
\* ProgressEvery, and no call when it does not.
C35_EveryHundred ==
    [][(numWorkers = 1 /\ hasProgress /\ raised' = {} /\ pcMain = "join")
          => Len(progress_calls') =
                Len(progress_calls)
                    + (IF RunningTotal' \div ProgressEvery > RunningTotal \div ProgressEvery
                       THEN 1 ELSE 0)]_vars

\* --------------------------------------------------- segments and suffixes
\* t occurs in s.
Contains(s, t) == \E i \in 0 .. Len(s) - Len(t) : SubSeq(s, i + 1, i + Len(t)) = t

\* match_all was called on the ruleset of one **/seg/** rule; seg.
SegmentCall ==
    /\ matchres # << >>
    /\ Len(patterns) = 1
    /\ additional_paths = << >>
    /\ patterns[1].pattern \in {SegmentPattern(l) : l \in Literals}

SegmentOf(pattern) == SubSeq(pattern, 4, Len(pattern) - 3)

\* C36: for a rule whose pattern is **/seg/** with a literal seg, match_all
\* returns the rule for a node iff the lower-cased path contains /seg/ (seg
\* lower-cased) or ends with /seg; a path in which /seg is followed by
\* another character than the separator does not match.
C36_SegmentMatch ==
    SegmentCall =>
        LET lpath == lower(matchres[1].path)
            key == << "/" >> \o lower(SegmentOf(patterns[1].pattern))
        IN  /\ matchres[1].hits \in {<< >>, << patterns[1] >>}
            /\ matchres[1].hits = << patterns[1] >>
                  <=> (Contains(lpath, key \o << "/" >>) \/ endswith(lpath, key))

\* C36, witness: the rule **/a/** is returned for /b/a, whose path does not
\* contain /a/ and ends with /a.
C36_Witness ==
    /\ SegmentCall
    /\ SegmentOf(patterns[1].pattern) = << "a" >>
    /\ matchres[1].path = << "/", "b", "/", "a" >>
    /\ matchres[1].hits = << patterns[1] >>

\* match_all was called on the ruleset of one **/*literal rule; the literal.
SuffixCall ==
    /\ matchres # << >>
    /\ Len(patterns) = 1
    /\ additional_paths = << >>
    /\ patterns[1].pattern \in {SuffixPattern(l) : l \in Literals}

SuffixOf(pattern) == SubSeq(pattern, 5, Len(pattern))

\* C37: for every pattern **/*literal, the empty literal and literals with a
\* separator included, match_all returns the rule for a node iff the node's
\* lower-cased basename ends with the (lower-cased) literal.
C37_SuffixMatch ==
    SuffixCall =>
        (matchres[1].hits = << patterns[1] >>
            <=> endswith(lower(basename_of(matchres[1].path)),
                         lower(SuffixOf(patterns[1].pattern))))

\* The insights pushed so far for a path, and the largest of their usages.
PushedFor(path) == {i \in recorded : i.path = path}

MaxPushed(path) ==
    CHOOSE u \in {i.disk_usage : i \in PushedFor(path)} :
        \A i \in PushedFor(path) : i.disk_usage <= u

\* C38: after any sequence of _heap_push calls on an initially empty heap and
\* seen dict with a fixed max_size >= 1, the heap holds at most max_size
\* entries, and seen holds exactly one usage for every path that was pushed:
\* the largest disk_usage of the insights pushed for it, also when the full
\* heap did not take the entry.
C38_BoundedHeapMaxSeen ==
    ipc = "heap" =>
        /\ Len(heaps["temp"]) <= max_insights
        /\ \A i \in recorded :
              {p \in hseen["temp"] : p[1] = i.path} = {<< i.path, MaxPushed(i.path) >>}

\* C38, the case: the heap is full and the last push was of a path the heap
\* holds no entry of, whose usage is nevertheless the one in seen.
C38_Witness ==
    /\ ipc = "heap"
    /\ fcall # << >>
    /\ Len(heaps["temp"]) = max_insights
    /\ \A k \in 1 .. Len(heaps["temp"]) : heaps["temp"][k][2] # fcall[1].arg.path
    /\ << fcall[1].arg.path, fcall[1].arg.disk_usage >> \in hseen["temp"]
    /\ \E i \in recorded : i.path = fcall[1].arg.path /\ i.disk_usage < fcall[1].arg.disk_usage

\* The last step was a _heap_push of an insight whose path was in seen.
PushOfKnownPath ==
    /\ ipc = "heap"
    /\ fcall' # << >>
    /\ fcall'[1].op = "_heap_push"
    /\ \E p \in hseen["temp"] : p[1] = fcall'[1].arg.path

PrevUsage == (CHOOSE p \in hseen["temp"] : p[1] = fcall'[1].arg.path)[2]

\* How often a heap holds an entry of a usage and path, and: the entries of
\* heap2 are those of heap1 and one more entry of the insight.
EntryCount(heap, usage, path) ==
    Cardinality({k \in 1 .. Len(heap) : heap[k][1] = usage /\ heap[k][2] = path})

OneMoreEntry(heap1, heap2, insight) ==
    \A i \in HeapInsights :
        EntryCount(heap2, i.disk_usage, i.path)
            = EntryCount(heap1, i.disk_usage, i.path)
                + (IF i.disk_usage = insight.disk_usage /\ i.path = insight.path
                   THEN 1 ELSE 0)

\* C39 as stated: a _heap_push of an insight whose path is in seen with a
\* recorded usage >= the insight's disk_usage leaves the heap and seen
\* unchanged; a push for the same path with a strictly higher usage adds a
\* second heap entry, removes no entry of the heap, and raises seen[path] to
\* the new usage.
C39_DedupOrSecondEntry ==
    [][PushOfKnownPath =>
        IF fcall'[1].arg.disk_usage <= PrevUsage
        THEN heaps' = heaps /\ hseen' = hseen
        ELSE /\ OneMoreEntry(heaps["temp"], heaps'["temp"], fcall'[1].arg)
             /\ << fcall'[1].arg.path, fcall'[1].arg.disk_usage >> \in hseen'["temp"]]_vars

\* C39 with the second half kept to a heap that has room: a push of a known
\* path with a usage that is not higher changes neither the heap nor seen; a
\* push with a strictly higher usage always raises seen[path] to the new usage
\* (and changes no other path's), and while the heap holds fewer than max_size
\* entries it adds one entry and keeps every entry the heap held, the stale one
\* of the path among them.
C39_SecondEntryWhileRoom ==
    [][PushOfKnownPath =>
        IF fcall'[1].arg.disk_usage <= PrevUsage
        THEN heaps' = heaps /\ hseen' = hseen
        ELSE /\ hseen'["temp"]
                  = (hseen["temp"] \ {<< fcall'[1].arg.path, PrevUsage >>})
                      \cup {<< fcall'[1].arg.path, fcall'[1].arg.disk_usage >>}
             /\ Len(heaps["temp"]) < max_insights =>
                  /\ OneMoreEntry(heaps["temp"], heaps'["temp"], fcall'[1].arg)
                  /\ \E k \in 1 .. Len(heaps'["temp"]) :
                        /\ heaps'["temp"][k][2] = fcall'[1].arg.path
                        /\ heaps'["temp"][k][1] = PrevUsage]_vars

\* C39, the case: the heap holds two entries of one path, a stale one and the
\* one of the usage in seen, and has room left.
C39_Witness ==
    /\ ipc = "heap"
    /\ Len(heaps["temp"]) < max_insights
    /\ \E j, k \in 1 .. Len(heaps["temp"]) :
          /\ heaps["temp"][j][2] = heaps["temp"][k][2]
          /\ heaps["temp"][j][1] < heaps["temp"][k][1]
          /\ << heaps["temp"][k][2], heaps["temp"][k][1] >> \in hseen["temp"]
          /\ fcall[1].arg.path = heaps["temp"][k][2]
          /\ fcall[1].arg.disk_usage = heaps["temp"][k][1]

\* C40: in every reachable state of a category's heap no two entries have
\* both the same disk_usage and the same path, so the (disk_usage, path)
\* prefix decides the order of any two entries and two Insight objects are
\* never compared.
C40_DistinctKeys ==
    ipc = "heap" =>
        \A j, k \in 1 .. Len(heaps["temp"]) :
            (/\ heaps["temp"][j][1] = heaps["temp"][k][1]
             /\ heaps["temp"][j][2] = heaps["temp"][k][2]) => j = k

\* C40, the case: two entries of the heap tie on disk_usage, and the insight
\* pushed last has the usage and path of an entry the heap holds.
C40_Witness ==
    /\ ipc = "heap"
    /\ Len(heaps["temp"]) >= 2
    /\ \E j, k \in 1 .. Len(heaps["temp"]) :
          /\ j # k
          /\ heaps["temp"][j][1] = heaps["temp"][k][1]
          /\ heaps["temp"][j][2] = fcall[1].arg.path
          /\ heaps["temp"][j][1] = fcall[1].arg.disk_usage

====
